---- MODULE Spec2Model ----
(***************************************************************************)
(* Document processing pipeline of the lab analyzer backend.               *)
(*                                                                         *)
(* One document is followed from upload through its background runs.  Two  *)
(* orchestrators exist in the repository and both are modelled; `impl`     *)
(* says which one the process was started with:                            *)
(*   "DP"  services/document_processor.py  (DocumentProcessor)             *)
(*   "PP"  services/processing_pipeline.py (ProcessingPipeline) on top of  *)
(*         services/database_manager.py    (DatabaseManager)               *)
(*                                                                         *)
(* A run is an asyncio task.  The Supabase client and the OCR client are   *)
(* called synchronously, so the code between two awaits that really        *)
(* suspend (extract_data, generate_insights, asyncio.sleep) is one atomic  *)
(* step of the event loop; every store write of such a step is recorded in *)
(* the run's `writes` history.                                             *)
(*                                                                         *)
(* Updates of the documents row are taken to succeed.  The save of the     *)
(* analysis, whose failure the code handles with a fallback write, can     *)
(* raise (SaveOutcomes).  In the deletion operations every store and       *)
(* bucket call that deletes can raise; reads of the documents row succeed. *)
(*                                                                         *)
(* Spec follows the runs and retries of both orchestrators; DeleteSpec     *)
(* follows a DocumentProcessor through upload, run and deletion.           *)
(***************************************************************************)
EXTENDS Integers, Sequences, FiniteSets, TLC

\* Largest number of runs (the upload's run plus retries) of the document.
MaxRuns == 2

\* Largest number of delete_document calls on the document.
MaxDeletes == 2

\* SQL NULL / Python None in a text column or variable.
Null == "null"

\* None where a progress percentage is expected.
NoProgress == -1

\* None where a document text is expected.
NoText == <<"None">>

\* None where a dict or a model object is expected.
None == [none |-> TRUE]

\* The only document id of the model (a uuid4 in the code).
DocId == "doc"

\* ProcessingStage constants.
OCR_EXTRACTION == "ocr_extraction"
AI_ANALYSIS == "ai_analysis"
SAVING_RESULTS == "saving_results"
COMPLETE == "complete"

\* STAGE_PROGRESS: the progress percentage written with each stage.
STAGE_PROGRESS(stage) ==
    CASE stage = OCR_EXTRACTION -> 10
      [] stage = AI_ANALYSIS -> 50
      [] stage = SAVING_RESULTS -> 90
      [] stage = COMPLETE -> 100

\* stage_progress.get(stage, 0) of DatabaseManager.update_processing_stage.
stage_progress(stage) ==
    CASE stage = OCR_EXTRACTION -> 10
      [] stage = AI_ANALYSIS -> 50
      [] stage = SAVING_RESULTS -> 90
      [] stage = COMPLETE -> 100
      [] OTHER -> 0

\* None, as the column or variable named `key` holds it.
NoneOf(key) ==
    CASE key = "progress" -> NoProgress
      [] key = "raw_text" -> NoText
      [] key = "pages" -> <<>>
      [] OTHER -> Null

\* dict.get(key): None for a missing key.
Get(data, key) == IF key \in DOMAIN data THEN data[key] ELSE NoneOf(key)

\* dict.update(extra): the keys of extra override those of base.
DictUpdate(base, extra) == extra @@ base

\* No extra_data (None).
NoExtra == [k \in {} |-> Null]

VARIABLES
    impl,              \* which orchestrator runs: "DP" or "PP"
    doc,               \* the row of the documents table
    analysis_results,  \* rows of the analysis_results table
    health_markers,    \* rows of the health_markers table
    nextId,            \* next primary key the store hands out
    runs,              \* the background tasks created so far, in creation order
    lastCall,          \* the last public call and what it returned
    store_trace,       \* the store as it was between the writes of the last step
    storage_file,      \* whether the bucket holds the document's file
    deletion,          \* the delete_document call: position and history
    sm,                \* the StorageManager.delete_file_with_retry call
    agent              \* the call of an adapter: its input, response and end

vars == <<impl, doc, analysis_results, health_markers, nextId, runs, lastCall,
          store_trace, storage_file, deletion, sm, agent>>

\* The state of the deletion operations.
delete_vars == <<storage_file, deletion, sm>>

\* ---------------------------------------------------------------- store

\* supabase.table("documents").update(payload).eq("id", id).execute():
\* the named columns of the row are overwritten, a missing row matches nothing.
SupabaseUpdate(d, payload) ==
    IF d.exists
    THEN [k \in DOMAIN d |-> IF k \in DOMAIN payload THEN payload[k] ELSE d[k]]
    ELSE d

NoDocument ==
    [exists |-> FALSE, status |-> Null, processing_stage |-> Null,
     progress |-> NoProgress, error_message |-> Null, raw_text |-> NoText]

\* _create_document_record / create_document_record: the inserted row names no
\* stage, progress, error_message or raw_text.
create_document_record ==
    [exists |-> TRUE, status |-> "processing", processing_stage |-> Null,
     progress |-> NoProgress, error_message |-> Null, raw_text |-> NoText]

\* doc_payload of DocumentProcessor._update_document_table: status,
\* error_message, progress and processing_stage are always part of the payload,
\* None when `data` lacks them; raw_text only when `data` has it.
doc_payload(data) ==
    (IF "raw_text" \in DOMAIN data THEN [raw_text |-> data.raw_text] ELSE NoExtra)
    @@ [status |-> data.status,
        error_message |-> Get(data, "error_message"),
        progress |-> Get(data, "progress"),
        processing_stage |-> Get(data, "processing_stage")]

\* DocumentProcessor._update_document_table.
_update_document_table(d, data) == SupabaseUpdate(d, doc_payload(data))

\* DocumentProcessor._save_document_data for data that is not a completed
\* analysis: the documents row alone is written.
_save_document_data(d, data) == _update_document_table(d, data)

\* update_data of DocumentProcessor._update_processing_stage.
stage_data(stage, extra_data) ==
    DictUpdate([status |-> "processing", processing_stage |-> stage,
                progress |-> STAGE_PROGRESS(stage)], extra_data)

\* DocumentProcessor._update_processing_stage.
_update_processing_stage(d, stage, extra_data) ==
    _save_document_data(d, stage_data(stage, extra_data))

\* The columns both orchestrators write to mark a failure.
error_data(error_message) == [status |-> "error", error_message |-> error_message]

\* _mark_document_error with the failure swallowed: nothing is written.
_mark_document_error_Swallowed(d, error_message) == d

\* DocumentProcessor._mark_document_error.
_mark_document_error(d, error_message) ==
    IF d.exists THEN _save_document_data(d, error_data(error_message)) ELSE d

\* update_data of DatabaseManager.update_processing_stage: stage and progress
\* only.
update_data(stage, extra_data) ==
    DictUpdate([processing_stage |-> stage, progress |-> stage_progress(stage)],
               extra_data)

\* DatabaseManager.update_processing_stage.
update_processing_stage(d, stage, extra_data) ==
    SupabaseUpdate(d, update_data(stage, extra_data))

\* DatabaseManager.mark_document_error: status and error_message only.
mark_document_error(d, error_message) == SupabaseUpdate(d, error_data(error_message))

\* DatabaseManager.update_document_raw_text.
update_document_raw_text(d, raw_text) == SupabaseUpdate(d, [raw_text |-> raw_text])

\* doc_payload of update_document_table without the error_message column.
db_doc_payload_KeepsMessage(data) ==
    [status |-> data.status,
     progress |-> Get(data, "progress"),
     processing_stage |-> Get(data, "processing_stage")]

\* doc_payload of DatabaseManager.update_document_table.
db_doc_payload(data) ==
    [status |-> data.status,
     error_message |-> Get(data, "error_message"),
     progress |-> Get(data, "progress"),
     processing_stage |-> Get(data, "processing_stage")]

\* DatabaseManager.update_document_table.
update_document_table(d, data) == SupabaseUpdate(d, db_doc_payload(data))

\* Where a task that has not finished can be: created, or suspended in one of
\* the awaits of the pipeline.
InFlight == {"scheduled", "extract_data", "generate_insights", "sleep"}

\* A task as asyncio.create_task leaves it: created, not yet started.
\* `writes` and `calls` are the history of the run: the payload of each update
\* of the documents row it has issued, and the adapters it has invoked;
\* `ocr_returned` records that its OCR call returned rather than raised, and
\* `overlap` whether an earlier task was unfinished at creation.
NewRun(by) ==
    [pc |-> "scheduled", by |-> by, ocr |-> None, extracted |-> None,
     insights |-> None, writes |-> <<>>, calls |-> <<>>, saved |-> FALSE,
     raised |-> FALSE, ocr_returned |-> FALSE,
     overlap |-> \E r \in 1..Len(runs) : runs[r].pc \in InFlight]

\* ---------------------------------------------------------------- text

\* str.isspace() on one character.
IsSpace(c) == c \in {" ", "\t", "\n"}

\* str.strip(): leading and trailing whitespace removed.
RECURSIVE LStrip(_)
LStrip(t) == IF t # <<>> /\ IsSpace(Head(t)) THEN LStrip(Tail(t)) ELSE t

RECURSIVE RStrip(_)
RStrip(t) ==
    IF t # <<>> /\ IsSpace(t[Len(t)]) THEN RStrip(SubSeq(t, 1, Len(t) - 1)) ELSE t

Strip(t) == RStrip(LStrip(t))

\* "".join([page.get('markdown', '') for page in pages])
RECURSIVE JoinMarkdown(_)
JoinMarkdown(pages) ==
    IF pages = <<>> THEN <<>>
    ELSE (IF "markdown" \in DOMAIN Head(pages) THEN Head(pages).markdown ELSE <<>>)
             \o JoinMarkdown(Tail(pages))

\* ------------------------------------------------------------- adapters

\* Texts an OCR call can produce for a page or a document.
Texts == {<<>>, <<" ">>, <<"H", "b">>}

\* What ocr_agent.extract_text(file_url) gives DocumentProcessor: a text or None,
\* or an exception.
DP_OcrOutcomes ==
    [ok : {TRUE}, value : Texts \cup {NoText}]
        \cup {[ok |-> FALSE, error |-> "OCR service failed"]}

\* What ocr_agent.extract_structured_data(file_url) gives ProcessingPipeline:
\* None, a response with a page list, or an exception.
PP_OcrOutcomes ==
    {[ok |-> TRUE, value |-> None]}
        \cup {[ok |-> TRUE, value |-> [pages |-> <<>>]]}
        \cup {[ok |-> TRUE, value |-> [pages |-> <<[markdown |-> t]>>]] :
                t \in Texts}
        \cup {[ok |-> FALSE, error |-> "OCR service failed"]}

\* `not raw_text or not raw_text.strip()` of DocumentProcessor._execute_ocr_stage.
DP_OcrEmpty(raw_text) == raw_text = NoText \/ raw_text = <<>> \/ Strip(raw_text) = <<>>

\* `not structured_ocr_data or not structured_ocr_data.get('pages')` of
\* ProcessingPipeline._execute_ocr_stage.
PP_OcrEmpty(structured_ocr_data) ==
    structured_ocr_data = None \/ Get(structured_ocr_data, "pages") = <<>>

\* A marker the structured-data adapter can report.
Hemoglobin ==
    [marker |-> "Hemoglobin", value |-> <<"1", "6", ".", "1">>, unit |-> "g/dL",
     reference_range |-> <<"1", "3", ".", "0", " ", "-", " ", "1", "7", ".", "5">>]

\* The marker lists extract_data can report: none (not fatal) or one marker.
MarkerLists == {<<>>, <<Hemoglobin>>}

\* ExtractionAgent.extract_data: HealthDataExtraction(**parsed_data), or the
\* exception it re-raises.
ExtractOutcomes ==
    {[ok |-> TRUE, value |-> [markers |-> ms, document_type |-> "Blood Test"]] :
        ms \in MarkerLists}
        \cup {[ok |-> FALSE, error |-> "ExtractionAgent failed"]}

\* AnalyzedHealthMarker: a marker that is given no status gets the default,
\* MarkerStatus.UNKNOWN.
AnalyzedHealthMarker(m) ==
    [marker |-> m.marker, value |-> m.value, unit |-> m.unit,
     reference_range |-> m.reference_range,
     status |-> IF "status" \in DOMAIN m THEN m.status ELSE "unknown"]

\* HealthInsights(data=extracted_data, **insight_data) as InsightAgent builds it:
\* the extracted markers are taken over as they are.
HealthInsights(extracted_data, insight_data) ==
    [data |-> [markers |-> [i \in 1..Len(extracted_data.markers) |->
                               AnalyzedHealthMarker(extracted_data.markers[i])],
               document_type |-> extracted_data.document_type],
     summary |-> insight_data.summary,
     disclaimer |-> insight_data.disclaimer]

\* InsightAgent.generate_insights: the parsed model response, or the exception
\* it re-raises.
InsightOutcomes ==
    {[ok |-> TRUE, value |-> [summary |-> "summary", disclaimer |-> "disclaimer"]],
     [ok |-> FALSE, error |-> "InsightAgent failed"]}

\* ------------------------------------------------- severity classifier
\* Strings are sequences of characters.  A float is an IEEE 754 double, kept
\* as sign * m * 2^e with m below 2^53 (or 2^53 itself after a carry); every
\* operation rounds its exact result to nearest, ties to even, as the hardware
\* does.  Denormals, infinities and NaN lie outside the numbers met here.

Digits == {"0", "1", "2", "3", "4", "5", "6", "7", "8", "9"}

DigitValue(c) ==
    CASE c = "0" -> 0 [] c = "1" -> 1 [] c = "2" -> 2 [] c = "3" -> 3 [] c = "4" -> 4
      [] c = "5" -> 5 [] c = "6" -> 6 [] c = "7" -> 7 [] c = "8" -> 8 [] c = "9" -> 9

\* The text without the replacement of commas.
ReplaceComma_Missing(str) == str

\* str.replace(',', '.')
ReplaceComma(str) == [i \in 1..Len(str) |-> IF str[i] = "," THEN "." ELSE str[i]]

\* The character of `str` at index i, "" past its end.
At(str, i) == IF i >= 1 /\ i <= Len(str) THEN str[i] ELSE ""

\* \d* at index i: the index after the longest run of digits.
RECURSIVE DigitsEnd(_, _)
DigitsEnd(str, i) == IF At(str, i) \in Digits THEN DigitsEnd(str, i + 1) ELSE i

\* \s* at index i: the index after the longest run of whitespace.
RECURSIVE SpaceEnd(_, _)
SpaceEnd(str, i) == IF IsSpace(At(str, i)) THEN SpaceEnd(str, i + 1) ELSE i

\* \d+(?:\.\d+)? at index i: the index after the match, 0 when there is none.
NumberEnd(str, i) ==
    IF At(str, i) \notin Digits THEN 0
    ELSE LET j == DigitsEnd(str, i)
         IN  IF At(str, j) = "." /\ At(str, j + 1) \in Digits
             THEN DigitsEnd(str, j + 1)
             ELSE j

\* 10^k
RECURSIVE Pow10(_)
Pow10(k) == IF k = 0 THEN 1 ELSE 10 * Pow10(k - 1)

\* The digits of str[from..to-1] read as one integer, skipping the point.
RECURSIVE DigitsToInt(_, _, _, _)
DigitsToInt(str, from, to, acc) ==
    IF from >= to THEN acc
    ELSE IF str[from] \in Digits
    THEN DigitsToInt(str, from + 1, to, 10 * acc + DigitValue(str[from]))
    ELSE DigitsToInt(str, from + 1, to, acc)

\* Natural numbers of any size: the limbs in base 2^15, least significant
\* first, without leading zero limbs.
RECURSIVE Pow2(_)
Pow2(k) == IF k = 0 THEN 1 ELSE 2 * Pow2(k - 1)

BASE == Pow2(15)

RECURSIVE Trim(_)
Trim(a) ==
    IF a # <<>> /\ a[Len(a)] = 0 THEN Trim(SubSeq(a, 1, Len(a) - 1)) ELSE a

RECURSIVE FromInt(_)
FromInt(n) == IF n = 0 THEN <<>> ELSE <<n % BASE>> \o FromInt(n \div BASE)

Limb(a, i) == IF i <= Len(a) THEN a[i] ELSE 0

\* -1, 0 or 1 as a < b, a = b or a > b, deciding from limb i down.
RECURSIVE CmpFrom(_, _, _)
CmpFrom(a, b, i) ==
    IF i = 0 THEN 0
    ELSE IF a[i] < b[i] THEN -1
    ELSE IF a[i] > b[i] THEN 1
    ELSE CmpFrom(a, b, i - 1)

CmpNat(a, b) ==
    IF Len(a) < Len(b) THEN -1
    ELSE IF Len(a) > Len(b) THEN 1
    ELSE CmpFrom(a, b, Len(a))

RECURSIVE AddFrom(_, _, _, _)
AddFrom(a, b, i, carry) ==
    IF i > Len(a) /\ i > Len(b)
    THEN (IF carry = 0 THEN <<>> ELSE <<carry>>)
    ELSE LET t == Limb(a, i) + Limb(b, i) + carry
         IN  <<t % BASE>> \o AddFrom(a, b, i + 1, t \div BASE)

AddNat(a, b) == AddFrom(a, b, 1, 0)

\* a - b for a >= b.
RECURSIVE SubFrom(_, _, _, _)
SubFrom(a, b, i, borrow) ==
    IF i > Len(a) THEN <<>>
    ELSE LET t == a[i] - Limb(b, i) - borrow
         IN  IF t < 0
             THEN <<t + BASE>> \o SubFrom(a, b, i + 1, 1)
             ELSE <<t>> \o SubFrom(a, b, i + 1, 0)

SubNat(a, b) == Trim(SubFrom(a, b, 1, 0))

\* a * k for a limb-sized k.
RECURSIVE MulSmallFrom(_, _, _, _)
MulSmallFrom(a, k, i, carry) ==
    IF i > Len(a)
    THEN (IF carry = 0 THEN <<>> ELSE <<carry>>)
    ELSE LET t == a[i] * k + carry
         IN  <<t % BASE>> \o MulSmallFrom(a, k, i + 1, t \div BASE)

MulSmall(a, k) == IF k = 0 THEN <<>> ELSE MulSmallFrom(a, k, 1, 0)

\* a * BASE^n.
ShiftLimbs(a, n) == IF a = <<>> THEN <<>> ELSE [i \in 1..n |-> 0] \o a

RECURSIVE MulFrom(_, _, _)
MulFrom(a, b, j) ==
    IF j > Len(b) THEN <<>>
    ELSE AddNat(ShiftLimbs(MulSmall(a, b[j]), j - 1), MulFrom(a, b, j + 1))

MulNat(a, b) == MulFrom(a, b, 1)

\* Quotient and remainder of a by a limb-sized d, from limb i down.
RECURSIVE DivFrom(_, _, _, _)
DivFrom(a, d, i, rem) ==
    IF i = 0 THEN [q |-> <<>>, r |-> rem]
    ELSE LET t == rem * BASE + a[i]
             rest == DivFrom(a, d, i - 1, t % d)
         IN  [q |-> rest.q \o <<t \div d>>, r |-> rest.r]

DivSmall(a, d) ==
    LET res == DivFrom(a, d, Len(a), 0)
    IN  [q |-> Trim(res.q), r |-> res.r]

\* a * 2^n and the integer part of a / 2^n.
ShlBits(a, n) == ShiftLimbs(MulSmall(a, Pow2(n % 15)), n \div 15)

ShrBits(a, n) ==
    IF n \div 15 >= Len(a) THEN <<>>
    ELSE DivSmall(SubSeq(a, n \div 15 + 1, Len(a)), Pow2(n % 15)).q

\* The number of bits of a limb and of a natural number.
RECURSIVE LimbBits(_)
LimbBits(x) == IF x = 0 THEN 0 ELSE 1 + LimbBits(x \div 2)

BitLen(a) == IF a = <<>> THEN 0 ELSE 15 * (Len(a) - 1) + LimbBits(a[Len(a)])

\* q or q + 1 as the rounding to nearest, ties to even, decides: `half` is -1,
\* 0 or 1 as the bits cut off are less than, equal to or more than half a unit
\* of q.
RoundUp(sign, q, e, half, sticky) ==
    [sign |-> sign,
     m |-> IF half = 1 \/ (half = 0 /\ (sticky \/ q[1] % 2 = 1))
           THEN AddNat(q, <<1>>) ELSE q,
     e |-> e]

\* m = q * 2^sh + the bits cut off.
RoundShifted(sign, m, e, sticky, sh, q) ==
    RoundUp(sign, q, e + sh,
            CmpNat(SubNat(m, ShlBits(q, sh)), ShlBits(<<1>>, sh - 1)), sticky)

\* The double nearest to sign * m * 2^e, ties to even; `sticky` says that the
\* exact number is a little more than m * 2^e.
RoundToDouble(sign, m, e, sticky) ==
    IF BitLen(m) <= 53 THEN [sign |-> IF m = <<>> THEN 1 ELSE sign, m |-> m, e |-> e]
    ELSE RoundShifted(sign, m, e, sticky, BitLen(m) - 53, ShrBits(m, BitLen(m) - 53))

\* The double of the decimal n / 10^s, n >= 0 and s <= 4: n * 2^70 is divided
\* by 10^s, which leaves more than 53 bits to round.
RoundQuotient(sign, d) == RoundToDouble(sign, d.q, -70, d.r # 0)

DecimalToDouble(sign, n, s) ==
    RoundQuotient(sign, DivSmall(ShlBits(FromInt(n), 70), Pow10(s)))

\* float(text) for the text str[start..to-1] of digits and at most one point, the
\* sign read before it.
ToFloatAt(sign, str, start, to, points) ==
    DecimalToDouble(sign, DigitsToInt(str, start, to, 0),
        IF points = {} THEN 0 ELSE to - 1 - (CHOOSE k \in points : TRUE))

ToFloatFrom(sign, str, start, to) ==
    ToFloatAt(sign, str, start, to, {k \in start..(to - 1) : str[k] = "."})

\* float(text) for the text str[from..to-1] of an optional sign, digits and at
\* most one point.
ToFloat(str, from, to) ==
    ToFloatFrom(IF At(str, from) = "-" THEN -1 ELSE 1, str,
                IF At(str, from) \in {"-", "+"} THEN from + 1 ELSE from, to)

\* The mantissas of two doubles over the exponent e.
AlignedAt(a, b, e) ==
    [a |-> ShlBits(a.m, a.e - e), b |-> ShlBits(b.m, b.e - e), e |-> e]

\* The mantissas of two doubles over their smaller exponent.
Aligned(a, b) == AlignedAt(a, b, IF a.e <= b.e THEN a.e ELSE b.e)

\* -1, 0 or 1 as a < b, a = b or a > b.
CmpAligned(a, b, al) ==
    IF a.sign # b.sign THEN (IF a.m = <<>> /\ b.m = <<>> THEN 0 ELSE a.sign)
    ELSE a.sign * CmpNat(al.a, al.b)

CmpDouble(a, b) == CmpAligned(a, b, Aligned(a, b))

\* a + b.
PlusAligned(a, b, al) ==
    IF a.sign = b.sign
    THEN RoundToDouble(a.sign, AddNat(al.a, al.b), al.e, FALSE)
    ELSE IF CmpNat(al.a, al.b) >= 0
    THEN RoundToDouble(a.sign, SubNat(al.a, al.b), al.e, FALSE)
    ELSE RoundToDouble(b.sign, SubNat(al.b, al.a), al.e, FALSE)

Plus(a, b) == PlusAligned(a, b, Aligned(a, b))

\* a - b, a <= b and a < b on doubles.
Minus(a, b) == Plus(a, [b EXCEPT !.sign = 0 - b.sign])
Leq(a, b) == CmpDouble(a, b) <= 0
Less(a, b) == CmpDouble(a, b) < 0

\* WARNING_THRESHOLD = 0.20
WARNING_THRESHOLD == DecimalToDouble(1, 20, 2)

\* a * b on doubles, and abs(a).
Times(a, b) ==
    RoundToDouble(a.sign * b.sign, MulNat(a.m, b.m), a.e + b.e, FALSE)
Abs(a) == [a EXCEPT !.sign = 1]
Zero == [sign |-> 1, m |-> <<>>, e |-> 0]

\* _NUMERIC_PATTERN = [-+]?\d*\.\d+|\d+ at index i: the index after the match,
\* 0 when there is none.
NumericEnd(str, i) ==
    LET p == IF At(str, i) \in {"-", "+"} THEN i + 1 ELSE i
        q == DigitsEnd(str, p)
    IN  IF At(str, q) = "." /\ At(str, q + 1) \in Digits
        THEN DigitsEnd(str, q + 1)
        ELSE IF At(str, i) \in Digits THEN DigitsEnd(str, i) ELSE 0

\* The least of a set of indices.
First(starts) == CHOOSE k \in starts : \A m \in starts : k <= m

\* _NUMERIC_PATTERN.search(str): the value of the leftmost match, or no match.
NumericMatch(str, i) == [found |-> TRUE, value |-> ToFloat(str, i, NumericEnd(str, i))]

NumericStarts(str) == {i \in 1..Len(str) : NumericEnd(str, i) # 0}

NumericSearch(str) ==
    IF NumericStarts(str) = {} THEN [found |-> FALSE]
    ELSE NumericMatch(str, First(NumericStarts(str)))

\* _RANGE_PATTERN = (\d+(?:\.\d+)?)\s*-\s*(\d+(?:\.\d+)?) at index i: where the
\* two groups lie.
RangeAt(str, i) ==
    LET j == NumberEnd(str, i)
        k == SpaceEnd(str, j)
        l == SpaceEnd(str, k + 1)
        m == NumberEnd(str, l)
    IN  IF j # 0 /\ At(str, k) = "-" /\ m # 0
        THEN [found |-> TRUE, low |-> <<i, j>>, high |-> <<l, m>>]
        ELSE [found |-> FALSE]

\* _LT_PATTERN = <=\s*(\d+(?:\.\d+)?)|<\s*(\d+(?:\.\d+)?) and _GT_PATTERN, the same
\* with `op` = ">", at index i: where the group lies.
BoundAt(str, i, op) ==
    LET k1 == SpaceEnd(str, i + 2)
        k2 == SpaceEnd(str, i + 1)
    IN  IF At(str, i) = op /\ At(str, i + 1) = "=" /\ NumberEnd(str, k1) # 0
        THEN [found |-> TRUE, bound |-> <<k1, NumberEnd(str, k1)>>]
        ELSE IF At(str, i) = op /\ NumberEnd(str, k2) # 0
        THEN [found |-> TRUE, bound |-> <<k2, NumberEnd(str, k2)>>]
        ELSE [found |-> FALSE]

\* pattern.search(range_str): the leftmost match, its groups as floats.
RangeGroups(str, match) ==
    [found |-> TRUE,
     low |-> ToFloat(str, match.low[1], match.low[2]),
     high |-> ToFloat(str, match.high[1], match.high[2])]

RangeStarts(str) == {i \in 1..Len(str) : RangeAt(str, i).found}

RangeSearch(str) ==
    IF RangeStarts(str) = {} THEN [found |-> FALSE]
    ELSE RangeGroups(str, RangeAt(str, First(RangeStarts(str))))

BoundGroup(str, match) ==
    [found |-> TRUE, bound |-> ToFloat(str, match.bound[1], match.bound[2])]

BoundStarts(str, op) == {i \in 1..Len(str) : BoundAt(str, i, op).found}

BoundSearch(str, op) ==
    IF BoundStarts(str, op) = {} THEN [found |-> FALSE]
    ELSE BoundGroup(str, BoundAt(str, First(BoundStarts(str, op)), op))

\* The branch of a bounded range: lines 152-163.
BoundedStatus(value, low, high, warning_margin) ==
    IF Leq(low, value) /\ Leq(value, high) THEN "normal"
    ELSE IF Less(value, low)
    THEN (IF Leq(Minus(low, value), warning_margin)
          THEN "warning_low" ELSE "danger_low")
    ELSE (IF Leq(Minus(value, high), warning_margin)
          THEN "warning_high" ELSE "danger_high")

\* warning_margin = range_span * WARNING_THRESHOLD if range_span > 0 else 0
BoundedMargin(range_span) ==
    IF Less(Zero, range_span) THEN Times(range_span, WARNING_THRESHOLD) ELSE Zero

\* The branch of "< X" and "<= X": lines 167-172.
UpperStatus(value, high) ==
    IF Less(value, high) THEN "normal"
    ELSE IF Leq(Minus(value, high), Abs(Times(high, WARNING_THRESHOLD)))
    THEN "warning_high" ELSE "danger_high"

\* The branch of "> X" and ">= X": lines 176-181.
LowerStatus(value, low) ==
    IF Less(low, value) THEN "normal"
    ELSE IF Leq(Minus(low, value), Abs(Times(low, WARNING_THRESHOLD)))
    THEN "warning_low" ELSE "danger_low"

\* The patterns tried with the comparisons before the bounded range.
StatusOfMatches_ComparisonFirst(value, rng, lt, gt) ==
    IF lt.found THEN UpperStatus(value, lt.bound)
    ELSE IF gt.found THEN LowerStatus(value, gt.bound)
    ELSE IF rng.found
    THEN BoundedStatus(value, rng.low, rng.high,
                       BoundedMargin(Minus(rng.high, rng.low)))
    ELSE "unknown"

\* The three patterns tried in order on the normalised range text.
StatusOfMatches(value, rng, lt, gt) ==
    IF rng.found
    THEN BoundedStatus(value, rng.low, rng.high,
                       BoundedMargin(Minus(rng.high, rng.low)))
    ELSE IF lt.found THEN UpperStatus(value, lt.bound)
    ELSE IF gt.found THEN LowerStatus(value, gt.bound)
    ELSE "unknown"

StatusInRange(value, range_str) ==
    StatusOfMatches(value, RangeSearch(range_str), BoundSearch(range_str, "<"),
                    BoundSearch(range_str, ">"))

\* LabDataExtractorAgent._get_status_with_severity.
_get_status_with_severity(value, reference_range) ==
    StatusInRange(value, ReplaceComma(reference_range))

\* What a call that raised nothing reports as its exception.
NoException == "none"

\* The try block of LabDataExtractorAgent._analyze_marker after the search for
\* a number in the value: the status, or the exception it raises.
TryWithMatch(marker, value_match) ==
    IF ~value_match.found THEN [raised |-> "ValueError"]
    ELSE IF marker.reference_range = NoText \/ marker.reference_range = <<>>
    THEN [raised |-> "ValueError"]
    ELSE [raised |-> NoException,
          status |-> _get_status_with_severity(value_match.value,
                                               marker.reference_range)]

\* The try block of LabDataExtractorAgent._analyze_marker.
_analyze_marker_try(marker) ==
    TryWithMatch(marker,
        NumericSearch(IF marker.value # NoText THEN ReplaceComma(marker.value)
                      ELSE <<>>))

\* The except clause of _analyze_marker: ValueError, TypeError and IndexError
\* of the try block end in MarkerStatus.UNKNOWN.
Except(body) ==
    IF body.raised \in {"ValueError", "TypeError", "IndexError"}
    THEN [raised |-> NoException, status |-> "unknown"]
    ELSE body

\* ExtractedHealthMarker(...) and AnalyzedHealthMarker(...): `value` is a
\* required str, so pydantic rejects a marker whose value is null.
ValidMarker(m) == m.value # NoText

\* return AnalyzedHealthMarker(**marker.dict(), status=status), after the try
\* statement.
Analyzed(marker, body) ==
    IF body.raised # NoException THEN [raised |-> body.raised]
    ELSE IF ~ValidMarker(marker) THEN [raised |-> "ValidationError"]
    ELSE [raised |-> NoException,
          value |-> AnalyzedHealthMarker([marker |-> marker.marker,
              value |-> marker.value, unit |-> marker.unit,
              reference_range |-> marker.reference_range,
              status |-> body.status])]

\* _analyze_marker without its except clause.
_analyze_marker_NoExcept(marker) == Analyzed(marker, _analyze_marker_try(marker))

\* LabDataExtractorAgent._analyze_marker: the analyzed marker, or the exception
\* that leaves the function.
_analyze_marker(marker) == Analyzed(marker, Except(_analyze_marker_try(marker)))

\* ------------------------------------------------------ analysis tables

\* _format_insights_as_markdown: the report text built from the narrative.
_format_insights_as_markdown(insights) ==
    <<"# Analysis Report", insights.summary, "Disclaimer", insights.disclaimer>>

\* The health_markers rows _save_health_markers inserts for an analysis.
MarkerRows(analysis_id, markers) ==
    [i \in 1..Len(markers) |->
        [analysis_id |-> analysis_id, marker_name |-> markers[i].marker,
         value |-> markers[i].value, unit |-> markers[i].unit,
         reference_range |-> markers[i].reference_range]]

\* How a save of the analysis can end: completely, with an exception before or
\* in the upsert of the analysis_results row, or with an exception in the insert
\* of the health_markers rows.
SaveOutcomes == {"ok", "upsert_fails", "insert_fails"}

\* _save_analysis_results with insert() in place of upsert(on_conflict=
\* "document_id"): every save adds a row.
_save_analysis_results_Insert(ar, hm, nid, d, analysis_data, outcome, r) ==
    LET row == [id |-> nid, document_id |-> DocId,
                raw_text |-> IF d.exists THEN d.raw_text ELSE NoText,
                structured_data |-> analysis_data,
                insights |-> _format_insights_as_markdown(analysis_data),
                saved_by |-> r]
        ar1 == ar \cup {row}
        markers == analysis_data.data.markers
    IN  IF outcome = "upsert_fails"
        THEN [ar |-> ar, hm |-> hm, nid |-> nid, ok |-> FALSE, between |-> <<>>]
        ELSE IF markers = <<>>
        THEN [ar |-> ar1, hm |-> hm, nid |-> nid + 1, ok |-> TRUE, between |-> <<>>]
        ELSE IF outcome = "insert_fails"
        THEN [ar |-> ar1, hm |-> hm, nid |-> nid + 1, ok |-> FALSE,
              between |-> <<[ar |-> ar1, hm |-> hm]>>]
        ELSE [ar |-> ar1, hm |-> hm \o MarkerRows(nid, markers), nid |-> nid + 1,
              ok |-> TRUE,
              between |-> <<[ar |-> ar1, hm |-> hm], [ar |-> ar1, hm |-> hm]>>]

\* DocumentProcessor._save_analysis_results with _save_health_markers, by task
\* `r`: the tables afterwards, whether the save returned normally, and the
\* tables as they were between its store calls (the upsert of the row, the
\* delete of the old marker rows, the insert of the new ones).
\* upsert(on_conflict="document_id") overwrites the row of the document, keeping
\* its id, or inserts one.  Markers are replaced only when the new list is not
\* empty.
_save_analysis_results(ar, hm, nid, d, analysis_data, outcome, r) ==
    LET existing == {row \in ar : row.document_id = DocId}
        id == IF existing # {} THEN (CHOOSE row \in existing : TRUE).id ELSE nid
        row == [id |-> id, document_id |-> DocId,
                raw_text |-> IF d.exists THEN d.raw_text ELSE NoText,
                structured_data |-> analysis_data,
                insights |-> _format_insights_as_markdown(analysis_data),
                saved_by |-> r]
        ar1 == (ar \ existing) \cup {row}
        nid1 == IF existing # {} THEN nid ELSE nid + 1
        markers == analysis_data.data.markers
        cleared == SelectSeq(hm, LAMBDA m : m.analysis_id # id)
    IN  IF outcome = "upsert_fails"
        THEN [ar |-> ar, hm |-> hm, nid |-> nid, ok |-> FALSE, between |-> <<>>]
        ELSE IF markers = <<>>
        THEN [ar |-> ar1, hm |-> hm, nid |-> nid1, ok |-> TRUE, between |-> <<>>]
        ELSE IF outcome = "insert_fails"
        THEN [ar |-> ar1, hm |-> cleared, nid |-> nid1, ok |-> FALSE,
              between |-> <<[ar |-> ar1, hm |-> hm]>>]
        ELSE [ar |-> ar1, hm |-> cleared \o MarkerRows(id, markers), nid |-> nid1,
              ok |-> TRUE,
              between |-> <<[ar |-> ar1, hm |-> hm], [ar |-> ar1, hm |-> cleared]>>]

\* DatabaseManager.save_analysis_results with _save_health_markers: the same
\* statements as DocumentProcessor's.
save_analysis_results(ar, hm, nid, d, analysis_data, outcome, r) ==
    LET existing == {row \in ar : row.document_id = DocId}
        id == IF existing # {} THEN (CHOOSE row \in existing : TRUE).id ELSE nid
        row == [id |-> id, document_id |-> DocId,
                raw_text |-> IF d.exists THEN d.raw_text ELSE NoText,
                structured_data |-> analysis_data,
                insights |-> _format_insights_as_markdown(analysis_data),
                saved_by |-> r]
        ar1 == (ar \ existing) \cup {row}
        nid1 == IF existing # {} THEN nid ELSE nid + 1
        markers == analysis_data.data.markers
        cleared == SelectSeq(hm, LAMBDA m : m.analysis_id # id)
    IN  IF outcome = "upsert_fails"
        THEN [ar |-> ar, hm |-> hm, nid |-> nid, ok |-> FALSE, between |-> <<>>]
        ELSE IF markers = <<>>
        THEN [ar |-> ar1, hm |-> hm, nid |-> nid1, ok |-> TRUE, between |-> <<>>]
        ELSE IF outcome = "insert_fails"
        THEN [ar |-> ar1, hm |-> cleared, nid |-> nid1, ok |-> FALSE,
              between |-> <<[ar |-> ar1, hm |-> hm]>>]
        ELSE [ar |-> ar1, hm |-> cleared \o MarkerRows(id, markers), nid |-> nid1,
              ok |-> TRUE,
              between |-> <<[ar |-> ar1, hm |-> hm], [ar |-> ar1, hm |-> cleared]>>]

\* _delete_analysis_data without its filters on document_id and analysis_id.
_delete_analysis_data_All(ar, hm) ==
    [ar |-> {}, hm |-> <<>>]

\* _delete_analysis_data: the markers of the document's analysis row, then the row.
_delete_analysis_data(ar, hm) ==
    LET existing == {row \in ar : row.document_id = DocId}
        ids == {row.id : row \in existing}
    IN  [ar |-> ar \ existing,
         hm |-> SelectSeq(hm, LAMBDA m : m.analysis_id \notin ids)]

\* How _delete_analysis_data can end: completely, with an exception before
\* anything is deleted, or with an exception between the delete of the marker
\* rows and the delete of the analysis_results row.
AnalysisDeleteOutcomes == {"ok", "fails", "row_delete_fails"}

\* _delete_analysis_data with the outcome of its store calls.
delete_analysis_data_outcome(ar, hm, outcome) ==
    LET deleted == _delete_analysis_data(ar, hm)
    IN  CASE outcome = "ok" -> deleted
          [] outcome = "fails" -> [ar |-> ar, hm |-> hm]
          [] outcome = "row_delete_fails" -> [ar |-> ar, hm |-> deleted.hm]

\* The message retry_document_processing records for an exception.
RetryError == "Retry failed"

\* The message of the exception a failed save raises.
SaveError == "analysis save failed"

\* What a reader of the store finds: the status of the documents row and the
\* two analysis tables.
Snapshot(d, ar, hm) ==
    [status |-> IF d.exists THEN d.status ELSE Null, ar |-> ar, hm |-> hm]

\* The store between the writes of one _save_document_data(final_data): after
\* the update of the documents row `d1`, after each store call of the save, and,
\* when the save raised, after the first write of the error (`d2`).
SaveTrace(d1, d2, ar, hm, saved) ==
    <<Snapshot(d1, ar, hm)>>
        \o [i \in 1..Len(saved.between) |->
               Snapshot(d1, saved.between[i].ar, saved.between[i].hm)]
        \o (IF saved.ok THEN <<>>
            ELSE <<Snapshot(d1, saved.ar, saved.hm), Snapshot(d2, saved.ar, saved.hm)>>)

\* max_retries of delete_document and of the two storage retry wrappers.
max_retries == 3

\* retry_delay = 1.0, in seconds, at the start of delete_document and of the
\* two storage retry wrappers.
retry_delay == 1

\* A call of a storage retry wrapper: where it is (idle, sleeping, returned,
\* raised), the loop variable, the delay the next sleep takes, the delays slept
\* so far and the number of remove() calls made.
NoCall ==
    [pc |-> "idle", attempt |-> 0, retry_delay |-> retry_delay, sleeps |-> <<>>,
     calls |-> 0]

\* The calls of delete_document: where the running call is (idle, file_sleep
\* inside the storage wrapper, record_sleep between two attempts), its loop
\* variable and delay, what it has called and slept so far, what failed in the
\* current attempt, and the values the calls have returned.
\* No extract_and_analyze call is under way.
NoAnalysis == [pc |-> "idle"]

NoDeletion ==
    [pc |-> "idle", attempt |-> 0, retry_delay |-> retry_delay, sleeps |-> <<>>,
     analysis_calls |-> 0, file_calls |-> 0, record_calls |-> 0,
     analysis_failed |-> FALSE, file_failed |-> FALSE, file |-> NoCall,
     returns |-> <<>>]

Init ==
    /\ impl \in {"DP", "PP"}
    /\ doc = NoDocument
    /\ analysis_results = {}
    /\ health_markers = <<>>
    /\ nextId = 1
    /\ runs = <<>>
    /\ lastCall = [op |-> "none", ret |-> FALSE]
    /\ store_trace = <<>>
    /\ storage_file = FALSE
    /\ deletion = NoDeletion
    /\ sm = NoCall
    /\ agent = NoAnalysis

\* How process_document can end: with the document id, or with the exception of
\* _upload_to_storage or of _create_document_record.
UploadOutcomes == {"ok", "upload_fails", "create_fails"}

\* process_document with create_task outside the try: the run is scheduled
\* whether or not upload and record creation succeeded.
process_document_SchedulesAnyway ==
    /\ ~doc.exists
    /\ runs = <<>>
    /\ ~storage_file
    /\ \E outcome \in UploadOutcomes :
        /\ storage_file' = (outcome # "upload_fails")
        /\ IF outcome = "ok"
           THEN doc' = create_document_record
           ELSE doc' = _mark_document_error(doc, "upload failed")
        /\ runs' = Append(runs, NewRun("upload"))
        /\ lastCall' = [op |-> "process_document", ret |-> (outcome = "ok")]
    /\ store_trace' = <<>>
    /\ UNCHANGED <<agent, impl, analysis_results, health_markers, nextId, deletion, sm>>

\* DocumentProcessor.process_document: upload, create the record, schedule the
\* run and return the id.  An exception of the first two is logged, handed to
\* _mark_document_error (the row does not exist then) and raised again; `ret`
\* says whether the call returned the id.
process_document ==
    /\ ~doc.exists
    /\ runs = <<>>
    /\ ~storage_file
    /\ \E outcome \in UploadOutcomes :
        /\ storage_file' = (outcome # "upload_fails")
        /\ IF outcome = "ok"
           THEN /\ doc' = create_document_record
                /\ runs' = Append(runs, NewRun("upload"))
           ELSE /\ doc' = _mark_document_error(doc, "upload failed")
                /\ runs' = runs
        /\ lastCall' = [op |-> "process_document", ret |-> (outcome = "ok")]
    /\ store_trace' = <<>>
    /\ UNCHANGED <<agent, impl, analysis_results, health_markers, nextId, deletion, sm>>

\* ------------------------------------------------ DocumentProcessor runs

\* The task `run` at `pc`, having written `ws` and invoked `cs`.
Advance(run, pc, ws, cs) ==
    [run EXCEPT !.pc = pc, !.writes = @ \o ws, !.calls = @ \o cs]

\* The update _mark_document_error issues: none when the record is gone.
DP_error_writes(d, error_message) ==
    IF d.exists THEN <<doc_payload(error_data(error_message))>> ELSE <<>>

\* final_data of _execute_save_stage.
DP_final_data(run) ==
    [status |-> "complete", raw_text |-> run.ocr.text, analysis |-> run.insights,
     progress |-> STAGE_PROGRESS(COMPLETE), processing_stage |-> COMPLETE]

\* _process_document_async from the start of the task to its first suspension:
\* the load of the record, _execute_ocr_stage, and _execute_analysis_stage up to
\* the await of extract_data.  Any exception ends in _mark_document_error.
DP_Start(r) ==
    /\ impl = "DP"
    /\ runs[r].pc = "scheduled"
    /\ \E out \in DP_OcrOutcomes :
        LET d1 == _update_processing_stage(doc, OCR_EXTRACTION, NoExtra)
            msg == IF out.ok THEN "OCR process yielded no text" ELSE out.error
            dErr == _mark_document_error(d1, msg)
            d2 == _update_processing_stage(d1, AI_ANALYSIS,
                      [raw_text |-> out.value, progress |-> 30])
        IN  IF ~doc.exists
            THEN /\ doc' = doc
                 /\ runs' = [runs EXCEPT ![r] = Advance(@, "returned", <<>>, <<>>)]
            ELSE IF ~out.ok \/ DP_OcrEmpty(out.value)
            THEN /\ doc' = dErr
                 /\ runs' = [runs EXCEPT ![r] =
                        [Advance(@, "failed",
                            <<doc_payload(stage_data(OCR_EXTRACTION, NoExtra))>>
                                \o DP_error_writes(d1, msg), <<"ocr">>)
                            EXCEPT !.ocr = IF out.ok THEN [text |-> out.value]
                                           ELSE None,
                                   !.ocr_returned = out.ok]]
            ELSE /\ doc' = d2
                 /\ runs' = [runs EXCEPT ![r] =
                        [Advance(@, "extract_data",
                                 <<doc_payload(stage_data(OCR_EXTRACTION, NoExtra)),
                                   doc_payload(stage_data(AI_ANALYSIS,
                                       [raw_text |-> out.value, progress |-> 30]))>>,
                                 <<"ocr", "extract_data">>)
                            EXCEPT !.ocr = [text |-> out.value],
                                   !.ocr_returned = TRUE]]
    /\ UNCHANGED <<agent, impl, analysis_results, health_markers, nextId, lastCall>>
    /\ store_trace' = <<>>
    /\ UNCHANGED delete_vars

\* _execute_analysis_stage from the return of extract_data to the await of
\* generate_insights.
DP_AfterExtract(r) ==
    /\ impl = "DP"
    /\ runs[r].pc = "extract_data"
    /\ \E out \in ExtractOutcomes :
        LET dErr == _mark_document_error(doc, out.error)
            d1 == _update_processing_stage(doc, AI_ANALYSIS, [progress |-> 50])
        IN  IF ~out.ok
            THEN /\ doc' = dErr
                 /\ runs' = [runs EXCEPT ![r] =
                        Advance(@, "failed", DP_error_writes(doc, out.error), <<>>)]
            ELSE /\ doc' = d1
                 /\ runs' = [runs EXCEPT ![r] =
                        [Advance(@, "generate_insights",
                                 <<doc_payload(stage_data(AI_ANALYSIS, [progress |-> 50]))>>,
                                 <<"generate_insights">>)
                            EXCEPT !.extracted = out.value]]
    /\ UNCHANGED <<agent, impl, analysis_results, health_markers, nextId, lastCall>>
    /\ store_trace' = <<>>
    /\ UNCHANGED delete_vars

\* DP_AfterInsights with _execute_save_stage not persisting SAVING_RESULTS.
DP_AfterInsights_NoStageWrite(r) ==
    /\ impl = "DP"
    /\ runs[r].pc = "generate_insights"
    /\ \E out \in InsightOutcomes :
        IF ~out.ok
        THEN /\ doc' = _mark_document_error(doc, out.error)
             /\ runs' = [runs EXCEPT ![r] =
                    Advance(@, "failed", DP_error_writes(doc, out.error), <<>>)]
        ELSE /\ doc' = doc
             /\ runs' = [runs EXCEPT ![r] =
                    [Advance(@, "sleep", <<>>, <<>>)
                        EXCEPT !.insights = HealthInsights(runs[r].extracted, out.value)]]
    /\ UNCHANGED <<agent, impl, analysis_results, health_markers, nextId, lastCall>>
    /\ store_trace' = <<>>
    /\ UNCHANGED delete_vars

\* From the return of generate_insights into _execute_save_stage, up to its
\* asyncio.sleep.
DP_AfterInsights(r) ==
    /\ impl = "DP"
    /\ runs[r].pc = "generate_insights"
    /\ \E out \in InsightOutcomes :
        LET dErr == _mark_document_error(doc, out.error)
            d1 == _update_processing_stage(doc, SAVING_RESULTS, NoExtra)
        IN  IF ~out.ok
            THEN /\ doc' = dErr
                 /\ runs' = [runs EXCEPT ![r] =
                        Advance(@, "failed", DP_error_writes(doc, out.error), <<>>)]
            ELSE /\ doc' = d1
                 /\ runs' = [runs EXCEPT ![r] =
                        [Advance(@, "sleep",
                                 <<doc_payload(stage_data(SAVING_RESULTS, NoExtra))>>, <<>>)
                            EXCEPT !.insights =
                                HealthInsights(runs[r].extracted, out.value)]]
    /\ UNCHANGED <<agent, impl, analysis_results, health_markers, nextId, lastCall>>
    /\ store_trace' = <<>>
    /\ UNCHANGED delete_vars

\* _execute_save_stage after the sleep: _save_document_data(final_data) writes
\* the documents row as complete and then saves the analysis.  When the save
\* raises, _save_document_data writes status and error_message itself and
\* re-raises, and _process_document_async calls _mark_document_error.
DP_AfterSleep(r) ==
    /\ impl = "DP"
    /\ runs[r].pc = "sleep"
    /\ \E outcome \in SaveOutcomes :
        LET data == DP_final_data(runs[r])
            d1 == _update_document_table(doc, data)
            saved == _save_analysis_results(analysis_results, health_markers,
                         nextId, d1, data.analysis, outcome, r)
            d2 == SupabaseUpdate(d1, [status |-> "error", error_message |-> SaveError])
            d3 == _mark_document_error(d2, SaveError)
        IN  /\ analysis_results' = saved.ar
            /\ health_markers' = saved.hm
            /\ nextId' = saved.nid
            /\ store_trace' = SaveTrace(d1, d2, analysis_results, health_markers, saved)
            /\ IF saved.ok
               THEN /\ doc' = d1
                    /\ runs' = [runs EXCEPT ![r] =
                           [Advance(@, "done", <<doc_payload(data)>>, <<>>)
                               EXCEPT !.saved = TRUE]]
               ELSE /\ doc' = d3
                    /\ runs' = [runs EXCEPT ![r] =
                           [Advance(@, "failed",
                                    <<doc_payload(data), error_data(SaveError)>>
                                        \o DP_error_writes(d2, SaveError), <<>>)
                               EXCEPT !.saved = (outcome # "upsert_fails")]]
    /\ UNCHANGED <<agent, impl, lastCall>>
    /\ UNCHANGED delete_vars

\* The checks of retry_document_processing without the one for a complete
\* document.
DP_retry_refused_MissingOnly(document_data) == ~document_data.exists

\* The checks of retry_document_processing that end it with False: no record,
\* or a record that is already complete.
DP_retry_refused(document_data) ==
    ~document_data.exists \/ document_data.status = "complete"

\* reset_data without its "progress" entry.
DP_reset_data_NoProgress ==
    [status |-> "processing", processing_stage |-> OCR_EXTRACTION,
     error_message |-> Null]

\* reset_data of retry_document_processing (processed_at is not a column any
\* update writes).
DP_reset_data ==
    [status |-> "processing", progress |-> 0, processing_stage |-> OCR_EXTRACTION,
     error_message |-> Null]

\* DocumentProcessor.retry_document_processing.  The record always carries the
\* public_url and filename it was created with, so the "missing file
\* information" branch is never taken.  An exception of _delete_analysis_data
\* is caught: the document is marked as failed, no task is created and the
\* call returns False.
retry_document_processing ==
    /\ impl = "DP"
    /\ IF DP_retry_refused(doc)
       THEN /\ lastCall' = [op |-> "retry", ret |-> FALSE]
            /\ UNCHANGED <<doc, analysis_results, health_markers, runs>>
       ELSE \E outcome \in AnalysisDeleteOutcomes :
            LET d1 == _save_document_data(doc, DP_reset_data)
                cleared == delete_analysis_data_outcome(analysis_results,
                               health_markers, outcome)
            IN  /\ analysis_results' = cleared.ar
                /\ health_markers' = cleared.hm
                /\ IF outcome = "ok"
                   THEN /\ Len(runs) < MaxRuns
                        /\ doc' = d1
                        /\ runs' = Append(runs, NewRun("retry"))
                        /\ lastCall' = [op |-> "retry", ret |-> TRUE]
                   ELSE /\ doc' = _mark_document_error(d1, RetryError)
                        /\ runs' = runs
                        /\ lastCall' = [op |-> "retry", ret |-> FALSE]
    /\ UNCHANGED <<agent, impl, nextId>>
    /\ store_trace' = <<>>
    /\ UNCHANGED delete_vars

\* ----------------------------------------------- ProcessingPipeline runs

\* final_data of ProcessingPipeline._execute_save_stage.
PP_final_data(run) ==
    [status |-> "complete", raw_text |-> JoinMarkdown(Get(run.ocr, "pages")),
     analysis |-> run.insights, progress |-> STAGE_PROGRESS(COMPLETE),
     processing_stage |-> COMPLETE]

\* process_document_async from the start of the task to its first suspension:
\* _execute_ocr_stage, and _execute_analysis_stage up to the await of
\* extract_data.  Any exception is recorded by mark_document_error and re-raised.
PP_Start(r) ==
    /\ impl = "PP"
    /\ runs[r].pc = "scheduled"
    /\ \E out \in PP_OcrOutcomes :
        LET d1 == update_processing_stage(doc, OCR_EXTRACTION, NoExtra)
            msg == IF out.ok THEN "OCR process yielded no pages or data" ELSE out.error
            dErr == mark_document_error(d1, msg)
            d2 == update_document_raw_text(d1, JoinMarkdown(Get(out.value, "pages")))
            d3 == update_processing_stage(d2, AI_ANALYSIS, [progress |-> 30])
        IN  IF ~out.ok \/ PP_OcrEmpty(out.value)
            THEN /\ doc' = dErr
                 /\ runs' = [runs EXCEPT ![r] =
                        [Advance(@, "failed",
                                 <<update_data(OCR_EXTRACTION, NoExtra), error_data(msg)>>,
                                 <<"ocr">>)
                            EXCEPT !.raised = TRUE,
                                   !.ocr = IF out.ok THEN out.value ELSE None,
                                   !.ocr_returned = out.ok]]
            ELSE /\ doc' = d3
                 /\ runs' = [runs EXCEPT ![r] =
                        [Advance(@, "extract_data",
                                 <<update_data(OCR_EXTRACTION, NoExtra),
                                   [raw_text |-> JoinMarkdown(Get(out.value, "pages"))],
                                   update_data(AI_ANALYSIS, [progress |-> 30])>>,
                                 <<"ocr", "extract_data">>)
                            EXCEPT !.ocr = out.value, !.ocr_returned = TRUE]]
    /\ UNCHANGED <<agent, impl, analysis_results, health_markers, nextId, lastCall>>
    /\ store_trace' = <<>>
    /\ UNCHANGED delete_vars

\* _execute_analysis_stage from the return of extract_data to the await of
\* generate_insights.
PP_AfterExtract(r) ==
    /\ impl = "PP"
    /\ runs[r].pc = "extract_data"
    /\ \E out \in ExtractOutcomes :
        LET dErr == mark_document_error(doc, out.error)
            d1 == update_processing_stage(doc, AI_ANALYSIS, [progress |-> 50])
        IN  IF ~out.ok
            THEN /\ doc' = dErr
                 /\ runs' = [runs EXCEPT ![r] =
                        [Advance(@, "failed", <<error_data(out.error)>>, <<>>)
                            EXCEPT !.raised = TRUE]]
            ELSE /\ doc' = d1
                 /\ runs' = [runs EXCEPT ![r] =
                        [Advance(@, "generate_insights",
                                 <<update_data(AI_ANALYSIS, [progress |-> 50])>>,
                                 <<"generate_insights">>)
                            EXCEPT !.extracted = out.value]]
    /\ UNCHANGED <<agent, impl, analysis_results, health_markers, nextId, lastCall>>
    /\ store_trace' = <<>>
    /\ UNCHANGED delete_vars

\* From the return of generate_insights into _execute_save_stage, up to its
\* asyncio.sleep.
PP_AfterInsights(r) ==
    /\ impl = "PP"
    /\ runs[r].pc = "generate_insights"
    /\ \E out \in InsightOutcomes :
        LET dErr == mark_document_error(doc, out.error)
            d1 == update_processing_stage(doc, SAVING_RESULTS, NoExtra)
        IN  IF ~out.ok
            THEN /\ doc' = dErr
                 /\ runs' = [runs EXCEPT ![r] =
                        [Advance(@, "failed", <<error_data(out.error)>>, <<>>)
                            EXCEPT !.raised = TRUE]]
            ELSE /\ doc' = d1
                 /\ runs' = [runs EXCEPT ![r] =
                        [Advance(@, "sleep", <<update_data(SAVING_RESULTS, NoExtra)>>, <<>>)
                            EXCEPT !.insights =
                                HealthInsights(runs[r].extracted, out.value)]]
    /\ UNCHANGED <<agent, impl, analysis_results, health_markers, nextId, lastCall>>
    /\ store_trace' = <<>>
    /\ UNCHANGED delete_vars

\* _execute_save_stage after the sleep: ProcessingPipeline._save_document_data
\* writes the documents row as complete and then saves the analysis.  When the
\* save raises, it calls mark_document_error and re-raises, and
\* process_document_async calls mark_document_error again and re-raises.
PP_AfterSleep(r) ==
    /\ impl = "PP"
    /\ runs[r].pc = "sleep"
    /\ \E outcome \in SaveOutcomes :
        LET data == PP_final_data(runs[r])
            d1 == update_document_table(doc, data)
            saved == save_analysis_results(analysis_results, health_markers,
                         nextId, d1, data.analysis, outcome, r)
            d2 == mark_document_error(d1, SaveError)
            d3 == mark_document_error(d2, SaveError)
        IN  /\ analysis_results' = saved.ar
            /\ health_markers' = saved.hm
            /\ nextId' = saved.nid
            /\ store_trace' = SaveTrace(d1, d2, analysis_results, health_markers, saved)
            /\ IF saved.ok
               THEN /\ doc' = d1
                    /\ runs' = [runs EXCEPT ![r] =
                           [Advance(@, "done", <<db_doc_payload(data)>>, <<>>)
                               EXCEPT !.saved = TRUE]]
               ELSE /\ doc' = d3
                    /\ runs' = [runs EXCEPT ![r] =
                           [Advance(@, "failed",
                                    <<db_doc_payload(data), error_data(SaveError),
                                      error_data(SaveError)>>, <<>>)
                               EXCEPT !.saved = (outcome # "upsert_fails"),
                                      !.raised = TRUE]]
    /\ UNCHANGED <<agent, impl, lastCall>>
    /\ UNCHANGED delete_vars

\* The checks of retry_processing that end it with False.
PP_retry_refused(document_data) ==
    ~document_data.exists \/ document_data.status = "complete"

\* reset_data of retry_processing.
PP_reset_data ==
    [status |-> "processing", progress |-> 0, processing_stage |-> OCR_EXTRACTION,
     error_message |-> Null]

\* ProcessingPipeline.retry_processing.  The record always carries the
\* public_url it was created with, so the "no file URL" branch is never taken.
retry_processing ==
    /\ impl = "PP"
    /\ IF PP_retry_refused(doc)
       THEN /\ lastCall' = [op |-> "retry", ret |-> FALSE]
            /\ UNCHANGED <<doc, runs>>
       ELSE /\ Len(runs) < MaxRuns
            /\ doc' = update_document_table(doc, PP_reset_data)
            /\ runs' = Append(runs, NewRun("retry"))
            /\ lastCall' = [op |-> "retry", ret |-> TRUE]
    /\ UNCHANGED <<agent, impl, analysis_results, health_markers, nextId>>
    /\ store_trace' = <<>>
    /\ UNCHANGED delete_vars

\* ------------------------------------------------------------- deletion

\* The statements after `await asyncio.sleep(retry_delay)` up to the next try:
\* the delay doubles and the loop moves to the next attempt.
Woken(w) ==
    [w EXCEPT !.retry_delay = @ * 2, !.attempt = @ + 1]

\* One iteration of the loop of DocumentProcessor._delete_storage_file_with_retry,
\* `removed` saying whether remove([storage_path]) returned: return on success,
\* sleep after a failure that is not the last attempt, raise after the last.
_delete_storage_file_with_retry(w, removed) ==
    IF removed
    THEN [w EXCEPT !.pc = "returned", !.calls = @ + 1]
    ELSE IF w.attempt < max_retries - 1
    THEN [w EXCEPT !.pc = "sleeping", !.calls = @ + 1,
                   !.sleeps = Append(@, w.retry_delay)]
    ELSE [w EXCEPT !.pc = "raised", !.calls = @ + 1]

\* delete_file_with_retry that also sleeps after its last attempt.
delete_file_with_retry_SleepsLast(w, removed) ==
    IF removed
    THEN [w EXCEPT !.pc = "returned", !.calls = @ + 1]
    ELSE IF w.attempt < max_retries
    THEN [w EXCEPT !.pc = "sleeping", !.calls = @ + 1,
                   !.sleeps = Append(@, w.retry_delay)]
    ELSE [w EXCEPT !.pc = "raised", !.calls = @ + 1]

\* One iteration of the loop of StorageManager.delete_file_with_retry, called
\* with the default max_retries.
delete_file_with_retry(w, removed) ==
    IF removed
    THEN [w EXCEPT !.pc = "returned", !.calls = @ + 1]
    ELSE IF w.attempt < max_retries - 1
    THEN [w EXCEPT !.pc = "sleeping", !.calls = @ + 1,
                   !.sleeps = Append(@, w.retry_delay)]
    ELSE [w EXCEPT !.pc = "raised", !.calls = @ + 1]

\* A call of StorageManager.delete_file_with_retry on the document's file runs
\* to its first sleep or to its end.
sm_delete_file_with_retry ==
    /\ sm.pc = "idle"
    /\ \E removed \in BOOLEAN :
        /\ sm' = delete_file_with_retry(sm, removed)
        /\ storage_file' = (storage_file /\ ~removed)
    /\ store_trace' = <<>>
    /\ UNCHANGED <<agent, impl, doc, analysis_results, health_markers, nextId, runs,
                   lastCall, deletion>>

\* StorageManager.delete_file_with_retry resumes after its sleep.
sm_AfterSleep ==
    /\ sm.pc = "sleeping"
    /\ \E removed \in BOOLEAN :
        /\ sm' = delete_file_with_retry(Woken(sm), removed)
        /\ storage_file' = (storage_file /\ ~removed)
    /\ store_trace' = <<>>
    /\ UNCHANGED <<agent, impl, doc, analysis_results, health_markers, nextId, runs,
                   lastCall, deletion>>

\* `return value` of delete_document.
Return(dl, value) ==
    [dl EXCEPT !.pc = "idle", !.returns = Append(@, value)]

\* Step 3 with a loop that allows one attempt more.
delete_document_record_step_OneMore(dl, deleted) ==
    LET called == [dl EXCEPT !.record_calls = @ + 1]
    IN  IF deleted
        THEN /\ doc' = NoDocument
             /\ deletion' = Return(called, TRUE)
        ELSE /\ doc' = doc
             /\ IF dl.attempt < max_retries
                THEN deletion' = [called EXCEPT !.pc = "record_sleep",
                                      !.sleeps = Append(@, dl.retry_delay)]
                ELSE deletion' = Return(called, FALSE)

\* Step 3 of an attempt of delete_document: _delete_document_record, then
\* `return True`; after an exception the sleep before the next attempt, or
\* `return False` on the last attempt.
delete_document_record_step(dl, deleted) ==
    LET called == [dl EXCEPT !.record_calls = @ + 1]
    IN  IF deleted
        THEN /\ doc' = NoDocument
             /\ deletion' = Return(called, TRUE)
        ELSE /\ doc' = doc
             /\ IF dl.attempt < max_retries - 1
                THEN deletion' = [called EXCEPT !.pc = "record_sleep",
                                      !.sleeps = Append(@, dl.retry_delay)]
                ELSE deletion' = Return(called, FALSE)

\* Step 2 with the exception of the storage wrapper ending the call.
delete_storage_file_step_Abort(dl, w, removed, deleted) ==
    LET w1 == _delete_storage_file_with_retry(w, removed)
    IN  /\ storage_file' = (storage_file /\ ~removed)
        /\ IF w1.pc = "sleeping"
           THEN /\ doc' = doc
                /\ deletion' = [dl EXCEPT !.pc = "file_sleep", !.file = w1]
           ELSE IF w1.pc = "raised"
           THEN /\ doc' = doc
                /\ deletion' = Return([dl EXCEPT !.file = w1, !.file_failed = TRUE],
                                      FALSE)
           ELSE delete_document_record_step([dl EXCEPT !.file = w1], deleted)

\* Step 2 of an attempt from one try of the storage wrapper on: the wrapper
\* returns or raises (delete_document logs the exception) and step 3 follows,
\* or the wrapper sleeps.
delete_storage_file_step(dl, w, removed, deleted) ==
    LET w1 == _delete_storage_file_with_retry(w, removed)
    IN  /\ storage_file' = (storage_file /\ ~removed)
        /\ IF w1.pc = "sleeping"
           THEN /\ doc' = doc
                /\ deletion' = [dl EXCEPT !.pc = "file_sleep", !.file = w1]
           ELSE delete_document_record_step(
                    [dl EXCEPT !.file = w1, !.file_failed = (w1.pc = "raised")],
                    deleted)

\* One attempt of delete_document without the check of the loaded row.
delete_document_attempt_NoLookup(dl) ==
    \E outcome \in AnalysisDeleteOutcomes, removed \in BOOLEAN, deleted \in BOOLEAN :
        LET tables == delete_analysis_data_outcome(analysis_results,
                          health_markers, outcome)
            dl1 == [dl EXCEPT !.analysis_calls = @ + 1,
                              !.analysis_failed = (outcome # "ok"),
                              !.file_failed = FALSE,
                              !.file_calls = @ + 1]
        IN  /\ analysis_results' = tables.ar
            /\ health_markers' = tables.hm
            /\ delete_storage_file_step(dl1, NoCall, removed, deleted)

\* One attempt of delete_document from its start: _load_document_data and
\* `return False` when there is no row; step 1, _delete_analysis_data, whose
\* exception is logged on every attempt; step 2, the storage wrapper, for the
\* storage_path every row has; step 3.
delete_document_attempt(dl) ==
    IF ~doc.exists
    THEN /\ deletion' = Return(dl, FALSE)
         /\ UNCHANGED <<doc, analysis_results, health_markers, storage_file>>
    ELSE \E outcome \in AnalysisDeleteOutcomes, removed \in BOOLEAN, deleted \in BOOLEAN :
            LET tables == delete_analysis_data_outcome(analysis_results,
                              health_markers, outcome)
                dl1 == [dl EXCEPT !.analysis_calls = @ + 1,
                                  !.analysis_failed = (outcome # "ok"),
                                  !.file_failed = FALSE,
                                  !.file_calls = @ + 1]
            IN  /\ analysis_results' = tables.ar
                /\ health_markers' = tables.hm
                /\ delete_storage_file_step(dl1, NoCall, removed, deleted)

\* A call of delete_document runs to its first sleep or to its return.
delete_document ==
    /\ deletion.pc = "idle"
    /\ Len(deletion.returns) < MaxDeletes
    /\ delete_document_attempt([NoDeletion EXCEPT !.returns = deletion.returns])
    /\ store_trace' = <<>>
    /\ UNCHANGED <<agent, impl, nextId, runs, lastCall, sm>>

\* delete_document resumes inside the storage wrapper after its sleep.
delete_AfterFileSleep ==
    /\ deletion.pc = "file_sleep"
    /\ \E removed \in BOOLEAN, deleted \in BOOLEAN :
        delete_storage_file_step(deletion, Woken(deletion.file), removed, deleted)
    /\ store_trace' = <<>>
    /\ UNCHANGED <<agent, impl, analysis_results, health_markers, nextId, runs,
                   lastCall, sm>>

\* delete_document resumes after the sleep between two attempts: the delay
\* doubles and the next attempt starts.
delete_AfterRecordSleep ==
    /\ deletion.pc = "record_sleep"
    /\ delete_document_attempt(Woken(deletion))
    /\ store_trace' = <<>>
    /\ UNCHANGED <<agent, impl, nextId, runs, lastCall, sm>>

Next ==
    \/ process_document
    \/ retry_document_processing
    \/ retry_processing
    \/ \E r \in 1..Len(runs) : DP_Start(r)
    \/ \E r \in 1..Len(runs) : DP_AfterExtract(r)
    \/ \E r \in 1..Len(runs) : DP_AfterInsights(r)
    \/ \E r \in 1..Len(runs) : DP_AfterSleep(r)
    \/ \E r \in 1..Len(runs) : PP_Start(r)
    \/ \E r \in 1..Len(runs) : PP_AfterExtract(r)
    \/ \E r \in 1..Len(runs) : PP_AfterInsights(r)
    \/ \E r \in 1..Len(runs) : PP_AfterSleep(r)

Spec == Init /\ [][Next]_vars

\* _process_document_async when the select of _load_document_data raises:
\* _load_document_data logs the exception and returns None, and the task
\* returns as it does for a record that is gone, without a write.
DP_Start_LoadFails(r) ==
    /\ impl = "DP"
    /\ runs[r].pc = "scheduled"
    /\ doc.exists
    /\ runs' = [runs EXCEPT ![r] = Advance(@, "returned", <<>>, <<>>)]
    /\ store_trace' = <<>>
    /\ UNCHANGED <<agent, impl, doc, analysis_results, health_markers, nextId,
                   lastCall>>
    /\ UNCHANGED delete_vars

\* The next step of task r: the event loop resumes it when the call it awaits
\* has returned or raised.
RunStep(r) ==
    /\ r \in 1..Len(runs)
    /\ \/ DP_Start(r) \/ DP_AfterExtract(r) \/ DP_AfterInsights(r) \/ DP_AfterSleep(r)
       \/ PP_Start(r) \/ PP_AfterExtract(r) \/ PP_AfterInsights(r) \/ PP_AfterSleep(r)
       \/ DP_Start_LoadFails(r)

\* The orchestrators with a store whose reads can fail as well.
FairNext ==
    \/ Next
    \/ \E r \in 1..Len(runs) : DP_Start_LoadFails(r)

\* Every adapter call and every store call returns, with success or failure: a
\* task that can take its next step takes it.  Uploads and retries are the
\* client's and need not come.
FairSpec ==
    Init /\ [][FairNext]_vars /\ \A r \in 1..MaxRuns : WF_vars(RunStep(r))

\* A DocumentProcessor with its deletion operations: the upload, the run it
\* schedules, delete_document and StorageManager.delete_file_with_retry.
DeleteInit ==
    /\ Init
    /\ impl = "DP"

DeleteNext ==
    \/ process_document
    \/ \E r \in 1..Len(runs) : DP_Start(r)
    \/ \E r \in 1..Len(runs) : DP_AfterExtract(r)
    \/ \E r \in 1..Len(runs) : DP_AfterInsights(r)
    \/ \E r \in 1..Len(runs) : DP_AfterSleep(r)
    \/ delete_document
    \/ delete_AfterFileSleep
    \/ delete_AfterRecordSleep
    \/ sm_delete_file_with_retry
    \/ sm_AfterSleep

DeleteSpec == DeleteInit /\ [][DeleteNext]_vars

\* ------------------------------------------------ the marker classifier call

\* The numbers of the model response: values from -MaxNegTenths to MaxTenths
\* tenths, range bounds from -MaxNegHalves to MaxHalves halves.
MaxTenths == 42
MaxNegTenths == 10
MaxHalves == 7
MaxNegHalves == 1

DigitText == <<"0", "1", "2", "3", "4", "5", "6", "7", "8", "9">>

\* The decimal text of a natural number, and of t tenths written with the
\* decimal separator sep: -15 tenths is "-1.5" or "-1,5".
RECURSIVE NatText(_)
NatText(n) ==
    IF n < 10 THEN <<DigitText[n + 1]>>
    ELSE NatText(n \div 10) \o <<DigitText[(n % 10) + 1]>>

TenthsText(t, sep) ==
    LET a == IF t < 0 THEN 0 - t ELSE t
    IN  (IF t < 0 THEN <<"-">> ELSE <<>>) \o NatText(a \div 10) \o <<sep>>
            \o NatText(a % 10)

Separators == {".", ","}
ValueTenths == (0 - MaxNegTenths)..MaxTenths
BoundTenths == {5 * i : i \in (0 - MaxNegHalves)..MaxHalves}

\* The bounds L <= H of the bounded ranges.
BoundPairs == {p \in BoundTenths \X BoundTenths : p[1] <= p[2]}

\* "L - H" and "< X", "<= X", "> X", ">= X".
BoundedText(l, h, sep) ==
    TenthsText(l, sep) \o <<" ", "-", " ">> \o TenthsText(h, sep)

Operators == {<<"<">>, <<"<", "=">>, <<">">>, <<">", "=">>}

OneSidedText(op, x, sep) == op \o <<" ">> \o TenthsText(x, sep)

\* Texts that are not numbers of the grid: words, the empty text, an integer
\* with a sign, integers.
NotANumber == <<"n", "o", "t", " ", "a", " ", "n", "u", "m", "b", "e", "r">>
OtherValues ==
    {NotANumber, <<>>, <<"-", "5">>, <<"9", "9">>, <<"1", "1", "0">>,
     <<"1", "4", "0">>}

Garbled == <<"g", "a", "r", "b", "l", "e", "d", "#", "!", "r", "a", "n", "g", "e">>
OtherRanges ==
    {Garbled, <<>>, NoText, <<"3", ".", "5", "-", "5", ".", "0">>, <<"3", ",", "5", " ", "-", " ", "5", ",", "0">>, <<"3", ".", "5", " ", "-", " ", "5", ".", "0">>, <<"<", " ", "1", "0", "0">>}

\* The numbers written in the model response, each with the tenths it stands
\* for: the grid of values, three integers and an integer with a sign.
ValueGrid ==
    {[text |-> TenthsText(t, sep), tenths |-> t] : t \in ValueTenths, sep \in Separators}
    \cup {[text |-> <<"-", "5">>, tenths |-> -50], [text |-> <<"9", "9">>, tenths |-> 990],
          [text |-> <<"1", "1", "0">>, tenths |-> 1100],
          [text |-> <<"1", "4", "0">>, tenths |-> 1400]}

\* The bounded ranges written in the model response, with their bounds in
\* tenths.
BoundedGrid ==
    {[text |-> BoundedText(p[1], p[2], sep), low |-> p[1], high |-> p[2]] :
        p \in BoundPairs, sep \in Separators}
    \cup {[text |-> R, low |-> 35, high |-> 50] : R \in {<<"3", ".", "5", "-", "5", ".", "0">>, <<"3", ",", "5", " ", "-", " ", "5", ",", "0">>, <<"3", ".", "5", " ", "-", " ", "5", ".", "0">>}}

\* The one-sided ranges, with their operator and their bound in tenths.
OneSidedGrid ==
    {[text |-> OneSidedText(op, x, sep), op |-> op, bound |-> x] :
        op \in Operators, x \in BoundTenths, sep \in Separators}
    \cup {[text |-> <<"<", " ", "1", "0", "0">>, op |-> <<"<">>, bound |-> 1000]}

\* The values and reference ranges a marker of the model response can carry.
\* A null value is met in the lists of two markers below.
ValueTexts == {v.text : v \in ValueGrid} \cup OtherValues

\* Bounded ranges written next to a comparison: "< 1.0 - 2.0" and
\* "1.0 - 2.0 (< 2.0)", each with the bounded range it holds.
MixedPairs == {<<10, 20>>, <<35, 50>>}

MixedGrid ==
    {[text |-> op \o <<" ">> \o BoundedText(p[1], p[2], "."),
      bounded |-> BoundedText(p[1], p[2], ".")] : op \in Operators, p \in MixedPairs}
    \cup {[text |-> BoundedText(p[1], p[2], ".") \o <<" ", "(">>
                        \o OneSidedText(op, p[2], ".") \o <<")">>,
            bounded |-> BoundedText(p[1], p[2], ".")] :
                op \in Operators, p \in MixedPairs}

\* Bounded ranges written with the larger bound first.
InvertedPairs == {<<20, 10>>, <<35, 0>>, <<5, -5>>}

InvertedGrid ==
    {[text |-> BoundedText(p[1], p[2], sep), low |-> p[1], high |-> p[2]] :
        p \in InvertedPairs, sep \in Separators}

RangeTexts ==
    {b.text : b \in BoundedGrid} \cup {b.text : b \in OneSidedGrid} \cup OtherRanges
        \cup {b.text : b \in MixedGrid} \cup {b.text : b \in InvertedGrid}

ExtractedMarker(name, value, reference_range) ==
    [marker |-> name, value |-> value, unit |-> "g/dL",
     reference_range |-> reference_range]

\* The (value, reference_range) of the markers that come in lists of two.
PairInputs ==
    {<<<<"4", ".", "0">>, <<"3", ".", "5", "-", "5", ".", "0">>>>, <<<<"4", ",", "2">>, <<"3", ",", "5", " ", "-", " ", "5", ",", "0">>>>, <<NotANumber, <<"3", ".", "5", " ", "-", " ", "5", ".", "0">>>>,
     <<<<"4", ".", "0">>, Garbled>>, <<<<"1", "1", "0">>, <<"<", " ", "1", "0", "0">>>>, <<NoText, <<"3", ".", "5", "-", "5", ".", "0">>>>}

MarkerListsOfReply ==
    {<<>>}
    \cup {<<ExtractedMarker("Hemoglobin", v, r)>> : v \in ValueTexts, r \in RangeTexts}
    \cup {<<ExtractedMarker("Hemoglobin", a[1], a[2]),
            ExtractedMarker("Glucose", b[1], b[2])>> : a \in PairInputs, b \in PairInputs}

\* What the chat completion gives extract_and_analyze: an error status or a
\* body that is not the JSON object asked for, or the parsed JSON object.
Replies ==
    {[ok |-> FALSE, error |-> e] : e \in {"HTTPStatusError", "JSONDecodeError"}}
    \cup {[ok |-> TRUE, markers |-> ms, document_type |-> "Blood Test"] :
            ms \in MarkerListsOfReply}

\* ExtractedHealthData(**parsed_json): the validated model, or the
\* ValidationError of pydantic.
ExtractedHealthData(parsed_json) ==
    IF \A i \in 1..Len(parsed_json.markers) : ValidMarker(parsed_json.markers[i])
    THEN [raised |-> NoException,
          value |-> [markers |-> parsed_json.markers,
                     document_type |-> parsed_json.document_type]]
    ELSE [raised |-> "ValidationError"]

\* analyzed_markers = [self._analyze_marker(marker) for marker in ...]
AnalyzeAll(markers) == [i \in 1..Len(markers) |-> _analyze_marker(markers[i])]

\* The markers for which _analyze_marker raised.
Failed(analyzed_markers) ==
    {i \in 1..Len(analyzed_markers) : analyzed_markers[i].raised # NoException}

\* The return of extract_and_analyze leaving out the markers it could not
\* classify.
AnalyzedHealthData_SkipsUnknown(analyzed_markers, document_type) ==
    IF Failed(analyzed_markers) # {}
    THEN [raised |-> analyzed_markers[First(Failed(analyzed_markers))].raised]
    ELSE [raised |-> NoException,
          value |-> [markers |->
                        SelectSeq([i \in 1..Len(analyzed_markers) |->
                                      analyzed_markers[i].value],
                                  LAMBDA m : m.status # "unknown"),
                     document_type |-> document_type]]

\* The list comprehension of extract_and_analyze and its return: the first
\* exception of _analyze_marker leaves the function, otherwise
\* AnalyzedHealthData(markers=analyzed_markers, ...) is returned.
AnalyzedHealthData(analyzed_markers, document_type) ==
    IF Failed(analyzed_markers) # {}
    THEN [raised |-> analyzed_markers[First(Failed(analyzed_markers))].raised]
    ELSE [raised |-> NoException,
          value |-> [markers |-> [i \in 1..Len(analyzed_markers) |->
                                     analyzed_markers[i].value],
                     document_type |-> document_type]]

\* extract_and_analyze once ExtractedHealthData(**parsed_json) was evaluated.
AnalyzeExtracted(extracted_data) ==
    IF extracted_data.raised # NoException
    THEN [raised |-> extracted_data.raised]
    ELSE AnalyzedHealthData(AnalyzeAll(extracted_data.value.markers),
                            extracted_data.value.document_type)

\* LabDataExtractorAgent.extract_and_analyze after the response arrived: the
\* AnalyzedHealthData it returns, or the exception that leaves it.  The except
\* clause names HTTPStatusError, JSONDecodeError, KeyError and TypeError.
extract_and_analyze_outcome(reply) ==
    IF ~reply.ok
    THEN [raised |-> NoException,
          value |-> [markers |-> <<>>, document_type |-> "Extraction Failed"]]
    ELSE AnalyzeExtracted(ExtractedHealthData(reply))

\* A call of extract_and_analyze that awaits the response.
LabCall(reply) ==
    [pc |-> "called", adapter |-> "LabDataExtractorAgent", reply |-> reply]

ClassifyInit ==
    /\ impl = "DP"
    /\ doc = NoDocument
    /\ analysis_results = {}
    /\ health_markers = <<>>
    /\ nextId = 1
    /\ runs = <<>>
    /\ lastCall = [op |-> "none", ret |-> FALSE]
    /\ store_trace = <<>>
    /\ storage_file = FALSE
    /\ deletion = NoDeletion
    /\ sm = NoCall
    /\ agent \in {LabCall(reply) : reply \in Replies}

\* The call `call` of an adapter after it ended with `outcome`.
AgentAfter(call, outcome) ==
    IF outcome.raised # NoException
    THEN [pc |-> "raised", error |-> outcome.raised] @@ call
    ELSE [pc |-> "returned", result |-> outcome.value] @@ call

\* The response arrives and extract_and_analyze runs to its end.
extract_and_analyze ==
    /\ agent.pc = "called"
    /\ agent.adapter = "LabDataExtractorAgent"
    /\ agent' = AgentAfter(agent, extract_and_analyze_outcome(agent.reply))
    /\ UNCHANGED <<impl, doc, analysis_results, health_markers, nextId, runs,
                   lastCall, store_trace, storage_file, deletion, sm>>

ClassifyNext == extract_and_analyze

ClassifySpec == ClassifyInit /\ [][ClassifyNext]_vars

\* ------------------------------------------------- adapters
\* The four adapters that call the language model, each as one call: its
\* input, what the chat completion gives it and how it ends.

MaxMarkers == 2

MarkerStatus ==
    {"danger_low", "warning_low", "normal", "warning_high", "danger_high",
     "unknown"}

\* The analyzed data handed to ClinicalInsightAgent: up to MaxMarkers markers,
\* each with one of the statuses.
AnalyzedInputs ==
    {[markers |-> [i \in DOMAIN st |-> Hemoglobin @@ [status |-> st[i]]],
      document_type |-> "Blood Test"] :
        st \in UNION {[1..k -> MarkerStatus] : k \in 0..MaxMarkers}}

\* What the language model can put into the JSON object of its message: the
\* three keys the prompt of ClinicalInsightAgent asks for, with or without a
\* disclaimer (which may be the empty string), or an object without summary.
ThreeKeys ==
    [summary |-> "summary", key_findings |-> <<"finding">>,
     recommendations |-> <<"advice">>]

InsightContents ==
    {ThreeKeys,
     ThreeKeys @@ [disclaimer |-> "disclaimer"],
     ThreeKeys @@ [disclaimer |-> ""],
     [key_findings |-> <<"finding">>, recommendations |-> <<"advice">>,
      disclaimer |-> "disclaimer"]}

\* What the chat completion gives generate_insights: an exception of the call
\* or of reading its body, or the parsed JSON object of the message.
InsightReplies ==
    {[ok |-> FALSE, error |-> e] :
        e \in {"HTTPStatusError", "JSONDecodeError", "KeyError", "ConnectError"}}
    \cup {[ok |-> TRUE, content |-> c] : c \in InsightContents}

\* out_of_range_markers of ClinicalInsightAgent.generate_insights.
out_of_range_markers(analyzed_data) ==
    SelectSeq(analyzed_data.markers, LAMBDA m : m.status # "normal")

\* The standard response for markers that are all normal.
AllNormalResponse ==
    [summary |-> "All lab markers are within their normal reference ranges.",
     key_findings |-> <<"All markers are within normal limits.">>,
     recommendations |-> <<"Continue with your healthy lifestyle.">>,
     disclaimer |-> "This analysis is for educational purposes only."]

\* The response of the except clause of ClinicalInsightAgent.generate_insights.
FallbackResponse ==
    [summary |-> "Could not generate AI insights due to a technical error.",
     key_findings |-> <<"Error during analysis.">>,
     recommendations |-> <<"Please try again later.">>,
     disclaimer |-> "An error occurred during processing."]

\* except (httpx.HTTPStatusError, json.JSONDecodeError, KeyError, TypeError)
CaughtErrors == {"HTTPStatusError", "JSONDecodeError", "KeyError", "TypeError"}

\* ClinicalInsightAgent.generate_insights: the dictionary it returns or the
\* exception that leaves it.
clinical_generate_insights(analyzed_data, reply) ==
    IF out_of_range_markers(analyzed_data) = <<>>
    THEN [raised |-> NoException, value |-> AllNormalResponse]
    ELSE IF reply.ok
    THEN [raised |-> NoException, value |-> reply.content]
    ELSE IF reply.error \in CaughtErrors
    THEN [raised |-> NoException, value |-> FallbackResponse]
    ELSE [raised |-> reply.error]

\* The required fields of HealthInsights besides data.
HealthInsightsFields == {"summary", "key_findings", "recommendations", "disclaimer"}

\* InsightAgent.generate_insights: HealthInsights(data=extracted_data,
\* **insight_data), or the exception it re-raises.
generate_insights(extracted_data, reply) ==
    IF ~reply.ok
    THEN [raised |-> reply.error]
    ELSE IF HealthInsightsFields \subseteq DOMAIN reply.content
    THEN [raised |-> NoException,
          value |-> HealthInsights(extracted_data, reply.content)]
    ELSE [raised |-> "ValidationError"]

\* What the chat completion gives ExtractionAgent.extract_data.
ExtractionReplies ==
    {[ok |-> FALSE, error |-> e] :
        e \in {"HTTPStatusError", "JSONDecodeError", "KeyError", "ConnectError"}}
    \cup {[ok |-> TRUE, content |-> [markers |-> ms, document_type |-> "Blood Test"]] :
            ms \in MarkerLists}
    \cup {[ok |-> TRUE, content |-> [document_type |-> "Blood Test"]]}

\* ExtractionAgent.extract_data: HealthDataExtraction(**parsed_data), or the
\* exception it re-raises.
extract_data(reply) ==
    IF ~reply.ok
    THEN [raised |-> reply.error]
    ELSE IF "markers" \in DOMAIN reply.content
    THEN [raised |-> NoException, value |-> reply.content]
    ELSE [raised |-> "ValidationError"]

\* The calls of the adapters that await the response.
ClinicalCalls ==
    {[pc |-> "called", adapter |-> "ClinicalInsightAgent", data |-> d, reply |-> r] :
        d \in AnalyzedInputs, r \in InsightReplies}

InsightCalls ==
    {[pc |-> "called", adapter |-> "InsightAgent",
      data |-> [markers |-> ms, document_type |-> "Blood Test"], reply |-> r] :
        ms \in MarkerLists, r \in InsightReplies}

ExtractionCalls ==
    {[pc |-> "called", adapter |-> "ExtractionAgent", reply |-> r] :
        r \in ExtractionReplies}

LabCalls ==
    {LabCall(r) : r \in {[ok |-> FALSE, error |-> e] :
                            e \in {"HTTPStatusError", "JSONDecodeError"}}
                        \cup {[ok |-> TRUE, markers |-> ms, document_type |-> "Blood Test"] :
                                ms \in MarkerLists}}

AgentsInit ==
    /\ impl = "DP"
    /\ doc = NoDocument
    /\ analysis_results = {}
    /\ health_markers = <<>>
    /\ nextId = 1
    /\ runs = <<>>
    /\ lastCall = [op |-> "none", ret |-> FALSE]
    /\ store_trace = <<>>
    /\ storage_file = FALSE
    /\ deletion = NoDeletion
    /\ sm = NoCall
    /\ agent \in ClinicalCalls \cup InsightCalls \cup ExtractionCalls \cup LabCalls

\* The response arrives and ClinicalInsightAgent.generate_insights ends.
ClinicalInsightAgent_generate_insights ==
    /\ agent.pc = "called"
    /\ agent.adapter = "ClinicalInsightAgent"
    /\ agent' = AgentAfter(agent, clinical_generate_insights(agent.data, agent.reply))
    /\ UNCHANGED <<impl, doc, analysis_results, health_markers, nextId, runs,
                   lastCall, store_trace, storage_file, deletion, sm>>

\* The response arrives and InsightAgent.generate_insights ends.
InsightAgent_generate_insights ==
    /\ agent.pc = "called"
    /\ agent.adapter = "InsightAgent"
    /\ agent' = AgentAfter(agent, generate_insights(agent.data, agent.reply))
    /\ UNCHANGED <<impl, doc, analysis_results, health_markers, nextId, runs,
                   lastCall, store_trace, storage_file, deletion, sm>>

\* The response arrives and ExtractionAgent.extract_data ends.
ExtractionAgent_extract_data ==
    /\ agent.pc = "called"
    /\ agent.adapter = "ExtractionAgent"
    /\ agent' = AgentAfter(agent, extract_data(agent.reply))
    /\ UNCHANGED <<impl, doc, analysis_results, health_markers, nextId, runs,
                   lastCall, store_trace, storage_file, deletion, sm>>

AgentsNext ==
    \/ ClinicalInsightAgent_generate_insights
    \/ InsightAgent_generate_insights
    \/ ExtractionAgent_extract_data
    \/ extract_and_analyze

AgentsSpec == AgentsInit /\ [][AgentsNext]_vars

\* A second document in the same store, uploaded and analysed earlier and not
\* operated on: its analysis_results row and the health_markers row of it.
OtherId == "other"

OtherResult ==
    [id |-> 1, document_id |-> OtherId, raw_text |-> <<"H", "b">>,
     structured_data |-> HealthInsights(
         [markers |-> <<Hemoglobin>>, document_type |-> "Blood Test"],
         [summary |-> "summary", disclaimer |-> "disclaimer"]),
     insights |-> <<"# Analysis Report", "summary", "Disclaimer", "disclaimer">>,
     saved_by |-> 0]

OtherMarkers == MarkerRows(OtherResult.id, <<Hemoglobin>>)

\* The store holds the other document's analysis when the document is uploaded.
TwoDocInit ==
    /\ impl \in {"DP", "PP"}
    /\ doc = NoDocument
    /\ analysis_results = {OtherResult}
    /\ health_markers = OtherMarkers
    /\ nextId = OtherResult.id + 1
    /\ runs = <<>>
    /\ lastCall = [op |-> "none", ret |-> FALSE]
    /\ store_trace = <<>>
    /\ storage_file = FALSE
    /\ deletion = NoDeletion
    /\ sm = NoCall
    /\ agent = NoAnalysis

\* The runs and retries of both orchestrators next to the other document.
TwoDocSpec == TwoDocInit /\ [][Next]_vars

\* The upload, run and deletion of a DocumentProcessor next to the other
\* document.
TwoDocDeleteInit ==
    /\ TwoDocInit
    /\ impl = "DP"

TwoDocDeleteSpec == TwoDocDeleteInit /\ [][DeleteNext]_vars

\* ------------------------------------------------------------ properties

RunIds == 1..Len(runs)

\* The stages a task has persisted, in the order of its writes.
RECURSIVE StagesWritten(_)
StagesWritten(ws) ==
    IF ws = <<>> THEN <<>>
    ELSE (IF "processing_stage" \in DOMAIN Head(ws) /\ Head(ws).processing_stage # Null
          THEN <<Head(ws).processing_stage>> ELSE <<>>) \o StagesWritten(Tail(ws))

StageRank(stage) ==
    CASE stage = OCR_EXTRACTION -> 1
      [] stage = AI_ANALYSIS -> 2
      [] stage = SAVING_RESULTS -> 3
      [] stage = COMPLETE -> 4

AllStages == {OCR_EXTRACTION, AI_ANALYSIS, SAVING_RESULTS, COMPLETE}

\* The writes of a task that name a progress.
ProgressWrites(ws) == SelectSeq(ws, LAMBDA w : "progress" \in DOMAIN w)

\* The row a task's own writes produce, applied in order to a fresh record.
RECURSIVE Replay(_, _)
Replay(d, ws) ==
    IF ws = <<>> THEN d ELSE Replay(SupabaseUpdate(d, Head(ws)), Tail(ws))

\* What a reader of the status sees of a row.
Visible(d) == <<d.status, d.processing_stage, d.progress>>

VisibleAfter(run, n) == Visible(Replay(create_document_record, SubSeq(run.writes, 1, n)))

\* The last value a task wrote to a column, None when it wrote none.
LastWritten(run, column) ==
    LET ws == SelectSeq(run.writes, LAMBDA w : column \in DOMAIN w)
    IN  IF ws = <<>> THEN NoneOf(column) ELSE ws[Len(ws)][column]

\* The document's rows of the analysis_results table.
ResultsOfDocument(ar) == {row \in ar : row.document_id = DocId}

\* The OCR call of the task returned, and returned no text: None, an empty or
\* whitespace-only text, no response or no pages.
ExtractionWasEmpty(run) ==
    /\ run.ocr_returned
    /\ IF impl = "DP"
       THEN DP_OcrEmpty(run.ocr.text)
       ELSE run.ocr = None \/ Strip(JoinMarkdown(Get(run.ocr, "pages"))) = <<>>

ExtractionErrors == {"OCR process yielded no text", "OCR process yielded no pages or data"}

\* C1.  A run whose three adapters succeed ends with status complete, stage
\* complete and progress 100, and the analysis saved for the document holds one
\* marker per extracted marker, each with the status the severity classifier
\* gives its value and reference range.
C1_SuccessfulRunSavesClassifiedMarkers ==
    [][\A r \in RunIds :
        (runs[r].pc = "sleep" /\ runs'[r].pc = "done") =>
            /\ doc'.status = "complete"
            /\ doc'.processing_stage = COMPLETE
            /\ doc'.progress = 100
            /\ \E row \in ResultsOfDocument(analysis_results') :
                LET saved == row.structured_data.data.markers
                    extracted == runs[r].extracted.markers
                IN  /\ Len(saved) = Len(extracted)
                    /\ \A i \in 1..Len(extracted) :
                        /\ saved[i].marker = extracted[i].marker
                        /\ saved[i].status = _analyze_marker(extracted[i]).value.status]_vars

\* C2.  A run whose extraction returns empty or whitespace-only text, or no
\* pages, ends with status error and an extraction error message, invokes
\* neither the marker adapter nor the insight adapter, and creates no analysis.
C2_EmptyExtractionEndsInError ==
    [][\A r \in RunIds :
        (runs[r].pc = "scheduled" /\ runs'[r].pc # "scheduled"
            /\ ExtractionWasEmpty(runs'[r])) =>
            /\ runs'[r].pc = "failed"
            /\ doc'.status = "error"
            /\ doc'.error_message \in ExtractionErrors
            /\ runs'[r].calls = <<"ocr">>
            /\ analysis_results' = analysis_results]_vars

\* C3.  When extract_data or generate_insights fails in a run, the step that
\* receives the failure leaves status error with the failure's message, invokes
\* no further adapter, persists no further stage and saves no analysis, and the
\* run takes no step afterwards.
C3_AdapterFailureEndsRun ==
    [][\A r \in RunIds :
        /\ (runs[r].pc \in {"extract_data", "generate_insights"}
                /\ runs'[r].pc = "failed") =>
            /\ doc'.status = "error"
            /\ doc'.error_message = IF runs[r].pc = "extract_data"
                                    THEN "ExtractionAgent failed"
                                    ELSE "InsightAgent failed"
            /\ runs'[r].calls = runs[r].calls
            /\ StagesWritten(runs'[r].writes) = StagesWritten(runs[r].writes)
            /\ analysis_results' = analysis_results
            /\ health_markers' = health_markers
            /\ \A row \in analysis_results' : row.saved_by # r
        /\ runs[r].pc = "failed" => runs'[r] = runs[r]]_vars

C3_Witness ==
    \E r \in RunIds :
        /\ runs[r].pc = "failed"
        /\ runs[r].calls = <<"ocr", "extract_data", "generate_insights">>
        /\ doc.status = "error"
        /\ doc.error_message = "InsightAgent failed"

C5_ProgressNeverRegresses ==
    \A r \in RunIds :
        LET ws == ProgressWrites(runs[r].writes)
        IN  /\ \A i \in 1..Len(ws) : ws[i].progress \in {10, 30, 50, 90, 100}
            /\ \A i \in 1..(Len(ws) - 1) :
                /\ ws[i + 1].progress # NoProgress
                /\ ws[i + 1].progress >= ws[i].progress

\* C6.  Once a run has written status complete or error, its later writes
\* change neither status nor stage nor progress.
C6_TerminalStatusIsFinal ==
    \A r \in RunIds :
        \A i \in 1..Len(runs[r].writes) :
            ("status" \in DOMAIN runs[r].writes[i]
                /\ runs[r].writes[i].status \in {"complete", "error"}) =>
                \A j \in i..Len(runs[r].writes) :
                    VisibleAfter(runs[r], j) = VisibleAfter(runs[r], i)

\* C7.  No two runs of the document are inside the pipeline at the same time.
C7_OneActiveRun ==
    Cardinality({r \in RunIds :
        runs[r].pc \in {"extract_data", "generate_insights", "sleep"}}) <= 1

\* C8.  When a retry created a run while an older run was unfinished and all
\* runs have finished, status, stage and progress are the ones the newest run
\* wrote and the document's analysis, if any, is the one it saved.
C8_NewRunSupersedesOld ==
    (/\ Len(runs) >= 2
     /\ runs[Len(runs)].overlap
     /\ \A r \in RunIds : runs[r].pc \notin InFlight) =>
        /\ doc.status = LastWritten(runs[Len(runs)], "status")
        /\ doc.processing_stage = LastWritten(runs[Len(runs)], "processing_stage")
        /\ doc.progress = LastWritten(runs[Len(runs)], "progress")
        /\ \A row \in ResultsOfDocument(analysis_results) : row.saved_by = Len(runs)

\* C9.  A retry of a document whose status is complete returns False, creates no
\* run and leaves the record and the analysis tables as they are.
C9_RetryOfCompleteRefused ==
    [][(doc.status = "complete" /\ lastCall' # lastCall) =>
            /\ lastCall' = [op |-> "retry", ret |-> FALSE]
            /\ runs' = runs
            /\ doc' = doc
            /\ analysis_results' = analysis_results
            /\ health_markers' = health_markers]_vars

C9_Witness ==
    /\ doc.status = "complete"
    /\ lastCall = [op |-> "retry", ret |-> FALSE]
    /\ ResultsOfDocument(analysis_results) # {}

C11_RetryDiscardsEarlierResults ==
    [][/\ (runs # <<>> /\ Len(runs') > Len(runs)) =>
            /\ ResultsOfDocument(analysis_results') = {}
            /\ health_markers' = <<>>
       /\ (/\ runs # <<>>
           /\ runs[Len(runs)].by = "retry"
           /\ ~runs[Len(runs)].saved) => ResultsOfDocument(analysis_results) = {}
       /\ \A r \in RunIds :
            (runs[r].by = "retry" /\ runs[r].pc # "done" /\ runs'[r].pc = "done") =>
                \A row \in ResultsOfDocument(analysis_results') :
                    /\ row.saved_by = r
                    /\ health_markers' =
                           MarkerRows(row.id, runs[r].insights.data.markers)]_vars

\* A reader that finds status complete finds the analysis row with exactly the
\* marker rows of its markers.
CompleteHasResult(s) ==
    (s.status = "complete") =>
        \E row \in ResultsOfDocument(s.ar) :
            SelectSeq(s.hm, LAMBDA m : m.analysis_id = row.id)
                = MarkerRows(row.id, row.structured_data.data.markers)

\* C12.  Whenever the store shows status complete, in a state between two steps
\* or between two writes of a step, the document's analysis row is stored with
\* all its marker rows and no others.
C12_CompleteImpliesStoredResult ==
    /\ CompleteHasResult(Snapshot(doc, analysis_results, health_markers))
    /\ \A i \in 1..Len(store_trace) : CompleteHasResult(store_trace[i])

\* The last call of delete_document has returned True.
Deleted ==
    /\ deletion.pc = "idle"
    /\ deletion.returns # <<>>
    /\ deletion.returns[Len(deletion.returns)]

C14_AtMostOneResult ==
    Cardinality(ResultsOfDocument(analysis_results)) <= 1

\* Two runs of the document have both stored their analysis.
C14_Witness ==
    /\ Len(runs) >= 2
    /\ runs[1].saved
    /\ runs[2].saved
    /\ Cardinality(ResultsOfDocument(analysis_results)) = 1

\* A step in which a call of delete_document returns.
DeleteReturns == Len(deletion'.returns) > Len(deletion.returns)

\* The value a returning call of delete_document returns.
Returned == deletion'.returns[Len(deletion'.returns)]

\* C15.  A call of delete_document calls _delete_document_record at most 3
\* times.  The step in which the record is deleted is the step in which the call
\* returns True, after one record deletion call per attempt so far and one sleep
\* between two attempts.  A call that returns False after trying has made
\* exactly 3 record deletion calls, slept 1 and 2 seconds, and left the record.
C15_RecordDeletionRetried ==
    [][/\ deletion'.record_calls <= max_retries
       /\ (doc.exists /\ ~doc'.exists) => (DeleteReturns /\ Returned)
       /\ (DeleteReturns /\ Returned) =>
            /\ doc.exists /\ ~doc'.exists
            /\ deletion'.record_calls = deletion'.attempt + 1
            /\ Len(deletion'.sleeps) = deletion'.attempt
       /\ (DeleteReturns /\ ~Returned /\ deletion'.record_calls > 0) =>
            /\ deletion'.record_calls = max_retries
            /\ deletion'.sleeps = <<1, 2>>
            /\ doc'.exists]_vars

\* A call returned True from its third record deletion call, after two sleeps.
C15_Witness ==
    /\ Deleted
    /\ deletion.record_calls = 3
    /\ deletion.sleeps = <<1, 2>>

\* C16.  A failure to delete the analysis rows or the stored file does not end
\* an attempt of delete_document: every attempt that found the record and is
\* past the storage wrapper has called _delete_document_record; a call returns
\* False only when it found no record or when its third record deletion call
\* failed; and a last attempt whose cleanup failed returns True when its record
\* deletion succeeds.
C16_CleanupIsBestEffort ==
    [][/\ (deletion'.pc # "file_sleep") =>
            deletion'.record_calls = deletion'.analysis_calls
       /\ (DeleteReturns /\ ~Returned) =>
            \/ ~doc.exists /\ deletion'.record_calls = 0
            \/ deletion'.record_calls = max_retries /\ doc'.exists
       /\ (/\ DeleteReturns
           /\ deletion'.attempt = max_retries - 1
           /\ deletion'.analysis_failed \/ deletion'.file_failed
           /\ doc.exists /\ ~doc'.exists) => Returned]_vars

\* A call returned True from its last attempt, in which the deletion of the
\* analysis rows and the deletion of the file both failed.
C16_Witness ==
    /\ Deleted
    /\ deletion.attempt = max_retries - 1
    /\ deletion.analysis_failed
    /\ deletion.file_failed
    /\ deletion.file.pc = "raised"

\* C17.  Every call of delete_document ends by returning a boolean.  A call on
\* a document that has no record returns False in its first step, has called
\* none of the three deletion steps and leaves the store and the bucket as they
\* are; so of two calls on a document the second returns False when the first
\* returned True.
C17_DeleteIsIdempotent ==
    [][/\ \A i \in 1..Len(deletion'.returns) : deletion'.returns[i] \in BOOLEAN
       /\ (deletion.pc = "idle" /\ deletion' # deletion /\ ~doc.exists) =>
            /\ DeleteReturns
            /\ ~Returned
            /\ deletion'.analysis_calls = 0
            /\ deletion'.file_calls = 0
            /\ deletion'.record_calls = 0
            /\ UNCHANGED <<doc, analysis_results, health_markers, storage_file>>
       /\ (Deleted /\ deletion' # deletion) => (DeleteReturns /\ ~Returned)]_vars

\* Two calls on an uploaded document: the first returned True, the second False.
C17_Witness ==
    /\ deletion.pc = "idle"
    /\ deletion.returns = <<TRUE, FALSE>>
    /\ deletion.record_calls = 0

\* The history of a call of a storage retry wrapper: at most 3 remove() calls;
\* the sleeps are 1 second, then 2 seconds, each after a failed attempt that is
\* not the last; a call that returned did so on its first success, one sleep
\* behind each failure before it; a call that raised made 3 calls and slept
\* twice, not after the third.
BackoffHistory(w) ==
    /\ w.calls <= max_retries
    /\ Len(w.sleeps) < max_retries
    /\ w.sleeps = SubSeq(<<1, 2>>, 1, Len(w.sleeps))
    /\ (w.pc = "returned") =>
            /\ w.calls = w.attempt + 1
            /\ Len(w.sleeps) = w.calls - 1
    /\ (w.pc = "sleeping") =>
            /\ w.calls = w.attempt + 1
            /\ w.calls < max_retries
            /\ Len(w.sleeps) = w.calls
            /\ w.sleeps[Len(w.sleeps)] = w.retry_delay
    /\ (w.pc = "raised") =>
            /\ w.calls = max_retries
            /\ w.sleeps = <<1, 2>>

\* C18.  Both storage retry wrappers, StorageManager.delete_file_with_retry and
\* DocumentProcessor._delete_storage_file_with_retry, keep the backoff history,
\* and a call that has returned or raised does nothing more.
C18_RetryBackoff ==
    [][/\ BackoffHistory(sm')
       /\ BackoffHistory(deletion'.file)
       /\ (sm.pc \in {"returned", "raised"}) => sm' = sm
       /\ (sm.pc = "sleeping" /\ sm' # sm) =>
            /\ sm'.retry_delay = 2 * sm.retry_delay
            /\ sm'.calls = sm.calls + 1]_vars

\* delete_file_with_retry raised after three failed attempts and two sleeps,
\* and the wrapper inside delete_document returned from its third attempt.
C18_Witness ==
    /\ sm.pc = "raised"
    /\ sm.calls = 3
    /\ sm.sleeps = <<1, 2>>
    /\ deletion.file.pc = "returned"
    /\ deletion.file.calls = 3

\* A step in which a call of process_document ends.
UploadEnds == lastCall' # lastCall /\ lastCall'.op = "process_document"

\* C19.  A call of process_document that returns the id has uploaded the file,
\* created the record with status processing and scheduled exactly one run,
\* which has not started; a call that raises, because the upload or the record
\* creation failed, leaves no record and no run.  A first run exists only by
\* such a returning call.
C19_UploadSchedulesOneRun ==
    [][/\ (UploadEnds /\ lastCall'.ret) =>
            /\ storage_file'
            /\ doc' = create_document_record
            /\ doc'.status = "processing"
            /\ Len(runs') = 1
            /\ runs'[1] = NewRun("upload")
            /\ runs'[1].pc = "scheduled"
       /\ (UploadEnds /\ ~lastCall'.ret) =>
            /\ runs' = <<>>
            /\ ~doc'.exists
       /\ (runs = <<>> /\ runs' # <<>>) => (UploadEnds /\ lastCall'.ret)]_vars

\* A call of process_document raised after the upload, in the creation of the
\* record: the file is stored, no record and no run exist.
C19_Witness ==
    /\ lastCall = [op |-> "process_document", ret |-> FALSE]
    /\ storage_file
    /\ ~doc.exists
    /\ runs = <<>>

\* C20.  No run lets an exception leave its task: a run that failed has
\* returned normally, and its last write recorded status error with a message.
C20_RunNeverRaises ==
    \A r \in RunIds :
        /\ ~runs[r].raised
        /\ (runs[r].pc = "failed") =>
            /\ LastWritten(runs[r], "status") = "error"
            /\ LastWritten(runs[r], "error_message") # Null

\* C21.  The error_message of the document is set only while its status is
\* error: in every state a non-null error_message goes with status error; a step
\* that sets or changes the message leaves status error; and every write of a
\* run that names a non-null error_message names status error with it.
C21_ErrorMessageOnlyWithError ==
    [][/\ (doc.error_message # Null) => doc.status = "error"
       /\ (doc'.error_message # Null /\ doc'.error_message # doc.error_message) =>
            doc'.status = "error"
       /\ \A r \in 1..Len(runs') : \A i \in 1..Len(runs'[r].writes) :
            LET w == runs'[r].writes[i]
            IN  ("error_message" \in DOMAIN w /\ w.error_message # Null) =>
                    ("status" \in DOMAIN w /\ w.status = "error")]_vars

\* The first run failed and recorded its message; the run of the retry
\* completed, and the message is gone.
C21_Witness ==
    /\ Len(runs) = 2
    /\ runs[1].pc = "failed"
    /\ LastWritten(runs[1], "error_message") # Null
    /\ runs[2].pc = "done"
    /\ doc.status = "complete"
    /\ doc.error_message = Null

Classified ==
    IF agent.pc = "returned" /\ agent.reply.ok
    THEN {[input |-> agent.reply.markers[i], status |-> agent.result.markers[i].status] :
            i \in 1..Len(agent.result.markers)}
    ELSE {}

\* The tenths a marker's value stands for and the range its reference text
\* stands for, where they are numbers of the grids.
ValueOf(m) == {v.tenths : v \in {x \in ValueGrid : x.text = m.value}}
BoundedOf(m) == {b \in BoundedGrid : b.text = m.reference_range}
UpperBoundOf(m) ==
    {b.bound : b \in {x \in OneSidedGrid :
        x.text = m.reference_range /\ x.op \in {<<"<">>, <<"<", "=">>}}}
LowerBoundOf(m) ==
    {b.bound : b \in {x \in OneSidedGrid :
        x.text = m.reference_range /\ x.op \in {<<">">>, <<">", "=">>}}}

AbsInt(x) == IF x < 0 THEN 0 - x ELSE x

\* C23.  A value inside a bounded range "L - H", both ends included, is
\* classified normal.
C23_InsideBoundedRangeIsNormal ==
    \A c \in Classified : \A v \in ValueOf(c.input) : \A b \in BoundedOf(c.input) :
        (b.low <= v /\ v <= b.high) => c.status = "normal"

\* C24.  Outside a bounded range "L - H" with L < H a value is a warning when
\* its distance from the nearer bound is at most 20% of H - L, the distance of
\* exactly 20% included, and a danger beyond that.
C24_BoundedRangeSeverity ==
    \A c \in Classified : \A v \in ValueOf(c.input) : \A b \in BoundedOf(c.input) :
        b.low < b.high =>
            /\ v < b.low =>
                c.status = IF 5 * (b.low - v) <= b.high - b.low
                           THEN "warning_low" ELSE "danger_low"
            /\ v > b.high =>
                c.status = IF 5 * (v - b.high) <= b.high - b.low
                           THEN "warning_high" ELSE "danger_high"

\* C25.  Against "< X" and "<= X" alike a value below X is normal; a value of
\* X or more is warning_high when it exceeds X by at most 20% of |X|, and
\* danger_high otherwise.
C25_UpperBoundSeverity ==
    \A c \in Classified : \A v \in ValueOf(c.input) : \A X \in UpperBoundOf(c.input) :
        c.status = IF v < X THEN "normal"
                   ELSE IF 5 * (v - X) <= AbsInt(X) THEN "warning_high"
                   ELSE "danger_high"

\* C26.  Against "> X" and ">= X" alike a value above X is normal; a value of
\* X or less is warning_low when it falls short of X by at most 20% of |X|,
\* and danger_low otherwise.
C26_LowerBoundSeverity ==
    \A c \in Classified : \A v \in ValueOf(c.input) : \A X \in LowerBoundOf(c.input) :
        c.status = IF v > X THEN "normal"
                   ELSE IF 5 * (X - v) <= AbsInt(X) THEN "warning_low"
                   ELSE "danger_low"

\* The model response was a JSON object whose markers all carry a text value.
ReplyOfTexts ==
    /\ agent.reply.ok
    /\ \A i \in 1..Len(agent.reply.markers) : agent.reply.markers[i].value # NoText

\* The text holds a numeric token: a digit somewhere.
HasNumericToken(str) == \E i \in 1..Len(str) : str[i] \in Digits

\* Only blanks lie strictly between the indices i and j of the text.
BlankBetween(str, i, j) == \A k \in (i + 1)..(j - 1) : str[k] = " "

\* The text holds a bounded range: a dash with a number ending before it and a
\* number starting after it, blanks aside.
HasBoundedShape(str) ==
    \E c \in 1..Len(str) :
        /\ str[c] = "-"
        /\ \E i \in 1..(c - 1) : str[i] \in Digits /\ BlankBetween(str, i, c)
        /\ \E j \in (c + 1)..Len(str) : str[j] \in Digits /\ BlankBetween(str, c, j)

\* The text holds a one-sided range: "<", "<=", ">" or ">=" with a number
\* starting after it, blanks aside.
HasOneSidedShape(str) ==
    \E c \in 1..Len(str) :
        /\ str[c] \in {"<", ">"}
        /\ \E j \in (c + 1)..Len(str) :
            /\ str[j] \in Digits
            /\ \/ BlankBetween(str, c, j)
               \/ At(str, c + 1) = "=" /\ BlankBetween(str, c + 1, j)

HasRangeShape(reference_range) ==
    /\ reference_range # NoText
    /\ HasBoundedShape(reference_range) \/ HasOneSidedShape(reference_range)

\* C27.  A marker whose value holds no numeric token, whose reference range is
\* empty or missing, or whose reference range has none of the three shapes is
\* classified unknown, and only such a marker is: every other status comes
\* from a numeric value and a range of one of the three shapes.
C27_UnknownIffNotParsed ==
    (agent.pc # "called" /\ ReplyOfTexts) =>
        /\ agent.pc = "returned"
        /\ \A c \in Classified :
            c.status = "unknown" <=>
                ~(HasNumericToken(c.input.value)
                    /\ HasRangeShape(c.input.reference_range))

C27_Witness ==
    /\ [input |-> ExtractedMarker("Hemoglobin", NotANumber,
                      <<"3", ".", "5", " ", "-", " ", "5", ".", "0">>),
        status |-> "unknown"] \in Classified
    /\ [input |-> ExtractedMarker("Glucose", <<"4", ".", "0">>, Garbled),
        status |-> "unknown"] \in Classified

\* C28.  Classifying never raises, whatever the value and the reference range
\* are, null included: the call returns, a marker that cannot be parsed is
\* unknown, and the other markers of the response are classified all the same.
C28_ClassifyingNeverRaises ==
    (agent.pc # "called" /\ agent.reply.ok) =>
        /\ agent.pc = "returned"
        /\ Len(agent.result.markers) = Len(agent.reply.markers)
        /\ \A i \in 1..Len(agent.reply.markers) :
            agent.reply.markers[i].value = NoText =>
                agent.result.markers[i].status = "unknown"

\* The text with every decimal comma written as a point.
WithPoints(str) ==
    IF str = NoText THEN NoText
    ELSE [i \in 1..Len(str) |-> IF str[i] = "," THEN "." ELSE str[i]]

HasComma(str) == str # NoText /\ \E i \in 1..Len(str) : str[i] = ","

\* C29.  A marker whose value, reference range or both are written with
\* decimal commas gets the status of the same marker written with points.
C29_DecimalCommaIsPoint ==
    \A c \in Classified :
        (HasComma(c.input.value) \/ HasComma(c.input.reference_range)) =>
            c.status = _analyze_marker(
                ExtractedMarker(c.input.marker, WithPoints(c.input.value),
                    WithPoints(c.input.reference_range))).value.status

C29_Witness ==
    /\ agent.pc = "returned"
    /\ agent.reply.ok
    /\ Len(agent.reply.markers) = 1
    /\ [input |-> ExtractedMarker("Hemoglobin", <<"4", ",", "2">>,
                      <<"3", ",", "5", " ", "-", " ", "5", ",", "0">>),
        status |-> "normal"] \in Classified

ZeroMarkers(run) == run.extracted # None /\ run.extracted.markers = <<>>

\* C31.  A run whose marker adapter returns no markers goes on: it invokes the
\* insight adapter, and when it finishes the document is complete with
\* progress 100 and its analysis result has an empty marker list, in the stored
\* structured data and in the health_markers rows of the result.
C31_ZeroMarkersNotFatal ==
    [][\A r \in RunIds :
        /\ (runs[r].pc = "extract_data" /\ ZeroMarkers(runs'[r])) =>
            /\ runs'[r].pc = "generate_insights"
            /\ runs'[r].calls[Len(runs'[r].calls)] = "generate_insights"
        /\ (runs[r].pc = "sleep" /\ runs'[r].pc = "done" /\ ZeroMarkers(runs[r])) =>
            /\ doc'.status = "complete"
            /\ doc'.progress = 100
            /\ \E row \in ResultsOfDocument(analysis_results') :
                /\ row.structured_data.data.markers = <<>>
                /\ SelectSeq(health_markers', LAMBDA m : m.analysis_id = row.id) = <<>>]_vars

\* The adapter call has ended by returning a result.
ReturnedBy(adapter) == agent.pc = "returned" /\ agent.adapter = adapter

\* C32.  Every response of generate_insights, of ClinicalInsightAgent and of
\* InsightAgent, has a disclaimer that is not empty: the response the model
\* generated, the all-normal response and the fallback response.
C32_DisclaimerInEveryResponse ==
    (ReturnedBy("ClinicalInsightAgent") \/ ReturnedBy("InsightAgent")) =>
        /\ "disclaimer" \in DOMAIN agent.result
        /\ agent.result.disclaimer # ""

\* The call of the adapter failed: the chat completion gave an error status or
\* a body that cannot be read.
CallFailed == ~agent.reply.ok

\* C37.  The marker adapters and the insight adapter report the failure of
\* their external call to the caller: a call whose chat completion failed never
\* ends by returning a result (an empty marker list, a placeholder narrative).
C37_NoAdapterMasksFailure ==
    (agent.pc \in {"returned", "raised"} /\ CallFailed
        /\ ~(agent.adapter = "ClinicalInsightAgent"
                /\ out_of_range_markers(agent.data) = <<>>))
        => agent.pc = "raised"

\* C33.  In every state, status = complete implies processing_stage = complete
\* and progress = 100, also when the runs of an upload and of a retry
\* interleave.
C33_CompleteMeansStageAndProgress ==
    doc.status = "complete" =>
        doc.processing_stage = COMPLETE /\ doc.progress = 100

\* A call of the retry of either orchestrator.
RetryStep == retry_document_processing \/ retry_processing

\* C36.  A retry returns True exactly when it has scheduled a new run, and it
\* returns False only for a document that is not found or already complete.
C36_RetryReturnsTrueIffScheduled ==
    [][RetryStep =>
        /\ lastCall'.op = "retry"
        /\ lastCall'.ret <=> (Len(runs') = Len(runs) + 1
                                /\ runs'[Len(runs')].pc = "scheduled")
        /\ ~lastCall'.ret => (~doc.exists \/ doc.status = "complete")]_vars

\* The text the OCR stage of task `run` extracted.
RunText(run) ==
    IF impl = "DP" THEN Get(run.ocr, "text") ELSE JoinMarkdown(Get(run.ocr, "pages"))

\* The stages that follow the extraction of the text.
AfterOcr == {AI_ANALYSIS, SAVING_RESULTS, COMPLETE}

\* C35.  Whenever a step leaves the document in stage ai_analysis,
\* saving_results or complete, raw_text is a non-empty text, and it is the text
\* the run that took the step extracted.
C35_RawTextOfTheRun ==
    [][doc'.processing_stage \in AfterOcr =>
        /\ doc'.raw_text \notin {NoText, <<>>}
        /\ \A r \in RunIds : runs'[r] # runs[r] => doc'.raw_text = RunText(runs'[r])]_vars

\* C34.  When every call a run awaits returns, a document in status processing
\* reaches status complete or error.
C34_ProcessingEnds ==
    (doc.status = "processing") ~> (doc.status \in {"complete", "error"})

\* ------------------------------------------------ classifier: shapes

\* The bounded range held by a reference text that also has a comparison.
MixedOf(m) == {g.bounded : g \in {x \in MixedGrid : x.text = m.reference_range}}

\* C38.  A reference text that holds a "LOW - HIGH" pair is classified by the
\* bounded rule also when it holds "<", "<=", ">" or ">=": the marker gets the
\* status it gets against the pair alone.
C38_BoundedShapeFirst ==
    \A c \in Classified : \A bounded \in MixedOf(c.input) :
        c.status = _analyze_marker(
            ExtractedMarker(c.input.marker, c.input.value, bounded)).value.status

\* "0.5" against "< 1.0 - 2.0": danger_low by the pair, where the comparison
\* alone would make it normal.
C38_Witness ==
    [input |-> ExtractedMarker("Hemoglobin", <<"0", ".", "5">>,
                   <<"<", " ", "1", ".", "0", " ", "-", " ", "2", ".", "0">>),
     status |-> "danger_low"] \in Classified

\* The bounded range of a reference text whose HIGH - LOW is zero or less.
NoSpanOf(m) ==
    {b \in BoundedGrid \cup InvertedGrid :
        b.text = m.reference_range /\ b.high - b.low <= 0}

\* C39.  Against a bounded range with HIGH - LOW <= 0 a value is normal only
\* when LOW = HIGH and the value equals it; every other value is danger_low or
\* danger_high, never a warning.
C39_NoSpanNoWarning ==
    \A c \in Classified : \A v \in ValueOf(c.input) : \A b \in NoSpanOf(c.input) :
        IF b.low = b.high /\ v = b.low
        THEN c.status = "normal"
        ELSE c.status \in {"danger_low", "danger_high"}

\* The lower and the upper bounds a reference text of the grids states.
LowerOf(m) == {b.low : b \in BoundedOf(m)} \cup LowerBoundOf(m)
UpperOf(m) == {b.high : b \in BoundedOf(m)} \cup UpperBoundOf(m)

\* normal < warning < danger.
Severity(status) ==
    CASE status = "normal" -> 0
      [] status \in {"warning_low", "warning_high"} -> 1
      [] status \in {"danger_low", "danger_high"} -> 2
      [] OTHER -> 0

\* The status of the marker with the value of t tenths in place of its own.
StatusAt(m, t) ==
    _analyze_marker(ExtractedMarker(m.marker, TenthsText(t, "."),
                                    m.reference_range)).value.status

\* C40.  A value below the lower bound of its range is never classified *_high
\* and is at least as severe as the value one tenth nearer to the bound; a
\* value above the upper bound is never classified *_low and is at least as
\* severe as the value one tenth nearer.  One tenth at a time covers every
\* pair v1 <= v2 of the grid.
C40_SeverityMonotone ==
    \A c \in Classified : \A v \in ValueOf(c.input) :
        /\ \A L \in LowerOf(c.input) :
            /\ v < L => c.status \notin {"warning_high", "danger_high"}
            /\ v + 1 < L => Severity(c.status) >= Severity(StatusAt(c.input, v + 1))
        /\ \A U \in UpperOf(c.input) :
            /\ v > U => c.status \notin {"warning_low", "danger_low"}
            /\ v - 1 > U => Severity(c.status) >= Severity(StatusAt(c.input, v - 1))
====
